---- MODULE Spec2Model ----
(***************************************************************************)
(* Context Bridge: the REST context provider (rest_provider.py,            *)
(* interfaces.py) and the WebSocket session protocol of the example        *)
(* server (examples/react-fastapi/backend/main.py).                        *)
(*                                                                         *)
(* Python strings are modelled as sequences of one-character strings, so   *)
(* that `pattern in url` is a real substring test.  Python's None and an   *)
(* absent dictionary key are the one-element sequences None and Absent,    *)
(* which are no strings over any alphabet used here.                       *)
(***************************************************************************)
EXTENDS Integers, Sequences, FiniteSets, TLC

VARIABLES
    config,             \* RESTContextProvider.config (immutable after construction)
    session,            \* RESTContextProvider.session: "None", "open" or "closed"
    last_known_url,     \* RESTContextProvider.last_known_url
    call,               \* what the last provider call did and returned
    chk,                \* the last is_screenshot_allowed query and its answer
    open_sessions,      \* how many aiohttp.ClientSession objects the provider created
                        \* and has not closed
    page_context,       \* the PageContext handed to the analyzer or written to the wire
    analyzed,           \* what analyze_context and generate_instructions made of it
    reparsed,           \* what _parse_context made of its wire form
    visited,            \* the context history handed to analyze_user_behavior
    behavior,           \* what analyze_user_behavior returned for it
    context_storage,    \* main.py context_storage: key -> PageContext
    screenshot_storage, \* main.py screenshot_storage: key -> base64 string
    context_history,    \* main.py context_history: client id -> list of PageContext
    pc,                 \* where each websocket_endpoint coroutine is suspended
    conn,               \* each connection: "open" or "dead"
    msg,                \* the inbound frame each session is handling or handled last
    todo,               \* the instructions each session has still to send
    sent,               \* the messages each session sent for that frame
    nrecv,              \* how many frames each session has received
    ended_by            \* the exception that ended each session's loop

pvars == <<config, session, last_known_url, call, chk, open_sessions>>

avars == <<page_context, analyzed, reparsed, visited, behavior>>

svars == <<context_storage, screenshot_storage, context_history, pc, conn, msg, todo,
           sent, nrecv, ended_by>>

vars == <<config, session, last_known_url, call, chk, open_sessions, page_context,
          analyzed, reparsed, visited, behavior, context_storage, screenshot_storage, context_history,
          pc, conn, msg, todo, sent, nrecv, ended_by>>

----------------------------------------------------------------------------
(* Values *)

None == <<"<None>">>
Absent == <<"<absent>">>

Alphabet == {"a", "b"}

MaxUrlLen == 2
MaxPatLen == 1
MaxPatterns == 2

SeqsUpTo(S, n) == UNION {[1..k -> S] : k \in 0..n}

\* URL strings, the empty string included
Urls == SeqsUpTo(Alphabet, MaxUrlLen)
Patterns == SeqsUpTo(Alphabet, MaxPatLen)
Whitelists == SeqsUpTo(Patterns, MaxPatterns)

\* Python truthiness of an Optional[str]: None and "" are falsy
Truthy(x) == x # None /\ x # <<>>

Min(a, b) == IF a < b THEN a ELSE b

\* Python `p in s` on strings: p occurs in s as a contiguous substring
StrIn(p, s) ==
    \E i \in 0..(Len(s) - Len(p)) : SubSeq(s, i + 1, i + Len(p)) = p

----------------------------------------------------------------------------
(* Context model (types.py) *)

\* InputData.type defaults to "text"
TextType == <<"t", "e", "x", "t">>

InputData(id, name, type, value, placeholder, required) ==
    [id |-> id, name |-> name, type |-> type, value |-> value,
     placeholder |-> placeholder, required |-> required]

FormData(id, name, action, method, fields) ==
    [id |-> id, name |-> name, action |-> action, method |-> method,
     fields |-> fields]

DOMData(text, html, forms, inputs) ==
    [some |-> TRUE, text |-> text, html |-> html, forms |-> forms, inputs |-> inputs]

ViewportData(width, height, scroll_x, scroll_y) ==
    [some |-> TRUE, width |-> width, height |-> height, scroll_x |-> scroll_x,
     scroll_y |-> scroll_y]

\* Optional[DOMData] and Optional[ViewportData]: `some` tells None from a value
NoDom == [some |-> FALSE, text |-> <<>>, forms |-> <<>>, inputs |-> <<>>]
NoViewport == [some |-> FALSE, width |-> 0]

PageContext(url, title, timestamp, dom, viewport, metadata) ==
    [url |-> url, title |-> title, timestamp |-> timestamp, dom |-> dom,
     viewport |-> viewport, metadata |-> metadata]

\* a JSON object is a function from its keys; JSON null where an object may
\* stand is JsonNull, and {} is the function with no key
JsonNull == [null |-> TRUE]

EmptyDict == << >>

\* truthiness of a JSON value that is null or an object
JsonTruthy(v) == "null" \notin DOMAIN v /\ DOMAIN v # {}

\* d.get(k, default)
DictGet(d, k, default) == IF k \in DOMAIN d THEN d[k] ELSE default

----------------------------------------------------------------------------
(* RESTContextProvider *)

BaseUrl == <<"h">>

\* ContextProviderConfig values a provider may be constructed with
AllConfigs ==
    [base_url : {None, BaseUrl},
     enable_screenshots : BOOLEAN,
     whitelisted_pages : Whitelists]

\* the configurations and urls the provider's calls are explored under
ProviderWhitelists == {<<>>, << <<"a">> >>, << <<"b", "a">>, <<"b">> >>}

ProviderUrls == {<<>>, <<"a">>, <<"b">>, <<"a", "b">>}

ProviderUrlArgs == ProviderUrls \cup {None}

ProviderConfigs ==
    [base_url : {None, BaseUrl},
     enable_screenshots : BOOLEAN,
     whitelisted_pages : ProviderWhitelists]

RECURSIVE AnyPatternIn(_, _)
\* the for loop of is_screenshot_allowed: the first pattern found in url returns True
AnyPatternIn(patterns, url) ==
    IF patterns = <<>> THEN FALSE
    ELSE IF StrIn(Head(patterns), url) THEN TRUE
    ELSE AnyPatternIn(Tail(patterns), url)

is_screenshot_allowed_prefix(url) ==
    IF ~config.enable_screenshots THEN FALSE
    ELSE IF config.whitelisted_pages = <<>> THEN TRUE
    ELSE \E i \in 1..Len(config.whitelisted_pages) :
            LET p == config.whitelisted_pages[i]
            IN Len(p) <= Len(url) /\ SubSeq(url, 1, Len(p)) = p

is_screenshot_allowed(url) ==
    IF ~config.enable_screenshots THEN FALSE
    ELSE IF config.whitelisted_pages = <<>> THEN TRUE
    ELSE AnyPatternIn(config.whitelisted_pages, url)

ensure_session_always_new(p) ==
    [p EXCEPT !.session = "open", !.open_sessions = @ + 1]

\* _ensure_session: create a session when there is none or it is closed, else
\* keep the one there is
ensure_session(p) ==
    IF p.session = "None" \/ p.session = "closed"
    THEN [p EXCEPT !.session = "open", !.open_sessions = @ + 1]
    ELSE p

\* a response body with a timestamp and, unless Absent, a url and a title
Body(url, title) ==
    [k \in {"timestamp"} \cup (IF url = Absent THEN {} ELSE {"url"})
                         \cup (IF title = Absent THEN {} ELSE {"title"}) |->
        CASE k = "url" -> url
          [] k = "title" -> title
          [] OTHER -> 1]

\* what the frontend may answer to GET /current-context
ContextBodies == {Body(u, t) : u \in ProviderUrls \cup {Absent}, t \in {<<"t">>, Absent}}

NoBody == EmptyDict

ContextResponses ==
    {[kind |-> k, data |-> NoBody] : k \in {"client_error", "timeout"}}
        \cup {[kind |-> "body", data |-> d] : d \in ContextBodies}

Image == <<"i">>

\* what the frontend may answer to POST /screenshot
ScreenshotResponses ==
    {[kind |-> k, screenshot |-> Absent] : k \in {"client_error", "timeout"}}
        \cup {[kind |-> "body", screenshot |-> s] : s \in {Image, Absent}}

\* the keyword arguments InputData(**field) accepts
InputKeys == {"id", "name", "type", "value", "placeholder", "required"}

\* InputData(**field): a key that is no field of InputData raises TypeError
parse_input_raises(field) == ~(DOMAIN field \subseteq InputKeys)

\* InputData(**field): the keys given, the dataclass defaults for the rest
parse_input(field) ==
    InputData(DictGet(field, "id", None), DictGet(field, "name", None),
              DictGet(field, "type", TextType), DictGet(field, "value", None),
              DictGet(field, "placeholder", None), DictGet(field, "required", FALSE))

\* lines 157-169: one form of dom_raw["forms"]
parse_form(form_data) ==
    LET fields == DictGet(form_data, "fields", <<>>)
    IN FormData(DictGet(form_data, "id", None), DictGet(form_data, "name", None),
                DictGet(form_data, "action", None), DictGet(form_data, "method", None),
                [i \in 1..Len(fields) |-> parse_input(fields[i])])

parse_form_raises(form_data) ==
    LET fields == DictGet(form_data, "fields", <<>>)
    IN \E i \in 1..Len(fields) : parse_input_raises(fields[i])

\* lines 150-181: dom is None unless the body has a truthy "dom"
parse_dom(data) ==
    IF "dom" \in DOMAIN data /\ JsonTruthy(data.dom)
    THEN LET dom_raw == data.dom
             forms == DictGet(dom_raw, "forms", <<>>)
             inputs == DictGet(dom_raw, "inputs", <<>>)
         IN DOMData(DictGet(dom_raw, "text", <<>>), DictGet(dom_raw, "html", None),
                    [i \in 1..Len(forms) |-> parse_form(forms[i])],
                    [i \in 1..Len(inputs) |-> parse_input(inputs[i])])
    ELSE NoDom

parse_dom_raises(data) ==
    /\ "dom" \in DOMAIN data
    /\ JsonTruthy(data.dom)
    /\ LET forms == DictGet(data.dom, "forms", <<>>)
           inputs == DictGet(data.dom, "inputs", <<>>)
       IN \/ \E i \in 1..Len(forms) : parse_form_raises(forms[i])
          \/ \E i \in 1..Len(inputs) : parse_input_raises(inputs[i])

parse_viewport_snake_case(data) ==
    IF "viewport" \in DOMAIN data /\ JsonTruthy(data.viewport)
    THEN ViewportData(DictGet(data.viewport, "width", 0),
                      DictGet(data.viewport, "height", 0),
                      DictGet(data.viewport, "scroll_x", 0),
                      DictGet(data.viewport, "scroll_y", 0))
    ELSE NoViewport

\* lines 184-192: viewport is None unless the body has a truthy "viewport";
\* the scroll offsets are read from the camelCase keys
parse_viewport(data) ==
    IF "viewport" \in DOMAIN data /\ JsonTruthy(data.viewport)
    THEN ViewportData(DictGet(data.viewport, "width", 0),
                      DictGet(data.viewport, "height", 0),
                      DictGet(data.viewport, "scrollX", 0),
                      DictGet(data.viewport, "scrollY", 0))
    ELSE NoViewport

\* _parse_context reads data["url"], data["title"] and data["timestamp"]
\* without a default (KeyError), after the dom has been built (TypeError)
parse_context_raises(data) ==
    \/ parse_dom_raises(data)
    \/ ~({"url", "title", "timestamp"} \subseteq DOMAIN data)

parse_context_error(data) == IF parse_dom_raises(data) THEN "TypeError" ELSE "KeyError"

parse_context(data) ==
    PageContext(data.url, data.title, data.timestamp, parse_dom(data),
                parse_viewport(data), DictGet(data, "metadata", EmptyDict))

Provider ==
    [session |-> session, last_known_url |-> last_known_url,
     open_sessions |-> open_sessions]

\* the result of one provider method: the provider afterwards, the exception
\* class raised (None when it returned), why, the value returned, the requests
\* issued, and whether _ensure_session was called
NoError == "None"

Result(p, exc, error, value, requests, ensured) ==
    [p |-> p, exc |-> exc, error |-> error, value |-> value,
     requests |-> requests, ensured |-> ensured]

get_current_context_request_wins(p, url, resp) ==
    IF ~Truthy(config.base_url)
    THEN Result(p, "ValueError", "base_url", None, <<>>, FALSE)
    ELSE
      LET p1 == [ensure_session(p) EXCEPT
                    !.last_known_url = IF Truthy(url) THEN url ELSE p.last_known_url]
          req == << [endpoint |-> "/current-context",
                     url |-> IF Truthy(url) THEN url ELSE Absent] >>
          p2 == IF "url" \in DOMAIN resp.data /\ ~Truthy(url)
                THEN [p1 EXCEPT !.last_known_url = resp.data.url]
                ELSE p1
      IN CASE resp.kind = "client_error" ->
                Result(p1, "RuntimeError", "transport", None, req, TRUE)
           [] resp.kind = "timeout" ->
                Result(p1, "TimeoutError", "timeout", None, req, TRUE)
           [] resp.kind = "body" /\ parse_context_raises(resp.data) ->
                Result(p2, parse_context_error(resp.data), "response_body", None, req, TRUE)
           [] OTHER ->
                Result(p2, NoError, NoError, parse_context(resp.data), req, TRUE)

get_current_context_url_after_reply(p, url, resp) ==
    IF ~Truthy(config.base_url)
    THEN Result(p, "ValueError", "base_url", None, <<>>, FALSE)
    ELSE
      LET p1 == ensure_session(p)
          req == << [endpoint |-> "/current-context",
                     url |-> IF Truthy(url) THEN url ELSE Absent] >>
          p2 == IF "url" \in DOMAIN resp.data
                THEN [p1 EXCEPT !.last_known_url = resp.data.url]
                ELSE p1
      IN CASE resp.kind = "client_error" ->
                Result(p1, "RuntimeError", "transport", None, req, TRUE)
           [] resp.kind = "timeout" ->
                Result(p1, "TimeoutError", "timeout", None, req, TRUE)
           [] resp.kind = "body" /\ parse_context_raises(resp.data) ->
                Result(p2, parse_context_error(resp.data), "response_body", None, req, TRUE)
           [] OTHER ->
                Result(p2, NoError, NoError, parse_context(resp.data), req, TRUE)

get_current_context(p, url, resp) ==
    IF ~Truthy(config.base_url)
    THEN Result(p, "ValueError", "base_url", None, <<>>, FALSE)
    ELSE
      LET p1 == [ensure_session(p) EXCEPT
                    !.last_known_url = IF Truthy(url) THEN url ELSE p.last_known_url]
          req == << [endpoint |-> "/current-context",
                     url |-> IF Truthy(url) THEN url ELSE Absent] >>
          p2 == IF "url" \in DOMAIN resp.data
                THEN [p1 EXCEPT !.last_known_url = resp.data.url]
                ELSE p1
      IN CASE resp.kind = "client_error" ->
                Result(p1, "RuntimeError", "transport", None, req, TRUE)
           [] resp.kind = "timeout" ->
                Result(p1, "TimeoutError", "timeout", None, req, TRUE)
           [] resp.kind = "body" /\ parse_context_raises(resp.data) ->
                Result(p2, parse_context_error(resp.data), "response_body", None, req, TRUE)
           [] OTHER ->
                Result(p2, NoError, NoError, parse_context(resp.data), req, TRUE)

target_url_ignores_arg(p, url) == p.last_known_url

\* the url a screenshot call resolves: `url or self.last_known_url`
target_url(p, url) == IF Truthy(url) THEN url ELSE p.last_known_url

get_screenshot_no_gate(p, url, resp) ==
    IF ~Truthy(config.base_url)
    THEN Result(p, "ValueError", "base_url", None, <<>>, FALSE)
    ELSE IF ~Truthy(target_url(p, url))
    THEN Result(p, "ValueError", "no_url", None, <<>>, FALSE)
    ELSE
      LET p1 == ensure_session(p)
          req == << [endpoint |-> "/screenshot", url |-> target_url(p, url)] >>
      IN CASE resp.kind = "client_error" ->
                Result(p1, "RuntimeError", "transport", None, req, TRUE)
           [] resp.kind = "timeout" ->
                Result(p1, "TimeoutError", "timeout", None, req, TRUE)
           [] resp.kind = "body" /\ resp.screenshot = Absent ->
                Result(p1, "RuntimeError", "no_screenshot_data", None, req, TRUE)
           [] OTHER ->
                Result(p1, NoError, NoError, resp.screenshot, req, TRUE)

get_screenshot(p, url, resp) ==
    IF ~Truthy(config.base_url)
    THEN Result(p, "ValueError", "base_url", None, <<>>, FALSE)
    ELSE IF ~Truthy(target_url(p, url))
    THEN Result(p, "ValueError", "no_url", None, <<>>, FALSE)
    ELSE IF ~is_screenshot_allowed(target_url(p, url))
    THEN Result(p, "PermissionError", "permission", None, <<>>, FALSE)
    ELSE
      LET p1 == ensure_session(p)
          req == << [endpoint |-> "/screenshot", url |-> target_url(p, url)] >>
      IN CASE resp.kind = "client_error" ->
                Result(p1, "RuntimeError", "transport", None, req, TRUE)
           [] resp.kind = "timeout" ->
                Result(p1, "TimeoutError", "timeout", None, req, TRUE)
           [] resp.kind = "body" /\ resp.screenshot = Absent ->
                Result(p1, "RuntimeError", "no_screenshot_data", None, req, TRUE)
           [] OTHER ->
                Result(p1, NoError, NoError, resp.screenshot, req, TRUE)

\* the classes `except Exception` catches
ExceptionClasses ==
    {"ValueError", "PermissionError", "RuntimeError", "TimeoutError", "KeyError",
     "TypeError"}

\* ContextResponse(context, screenshot), with the swallowed screenshot error
\* kept beside it
ContextResponse(context, screenshot) ==
    [context |-> context, screenshot |-> screenshot]

get_context_with_screenshot_reraises(p, url, resp, sresp) ==
    LET c == get_current_context(p, url, resp)
        s == get_screenshot(c.p, url, sresp)
    IN IF c.exc # NoError THEN c
       ELSE IF s.exc # NoError
       THEN Result(s.p, s.exc, s.error, None, c.requests \o s.requests, TRUE)
       ELSE Result(s.p, NoError, NoError, ContextResponse(c.value, s.value),
                   c.requests \o s.requests, TRUE)

get_context_with_screenshot_shot_first(p, url, resp, sresp) ==
    LET s == get_screenshot(p, url, sresp)
        c == get_current_context(s.p, url, resp)
    IN IF c.exc # NoError
       THEN Result(c.p, c.exc, c.error, None, s.requests \o c.requests, TRUE)
       ELSE Result(c.p, NoError, NoError,
                   ContextResponse(c.value,
                       IF s.exc \in ExceptionClasses THEN None ELSE s.value),
                   s.requests \o c.requests, TRUE)

get_context_with_screenshot(p, url, resp, sresp) ==
    LET c == get_current_context(p, url, resp)
        s == get_screenshot(c.p, url, sresp)
    IN IF c.exc # NoError THEN c
       ELSE Result(s.p, NoError, NoError,
                   ContextResponse(c.value,
                       IF s.exc \in ExceptionClasses THEN None ELSE s.value),
                   c.requests \o s.requests, TRUE)

\* the record of a finished call: the method, its url argument, the provider
\* before it, what it raised or returned, the requests it issued, whether it
\* called _ensure_session and, for get_context_with_screenshot, how its two
\* inner calls ended
Call(op, url, before, r, ctx, shot) ==
    [op |-> op, url |-> url, before |-> before, exc |-> r.exc, error |-> r.error,
     value |-> r.value, requests |-> r.requests, ensured |-> r.ensured,
     ctx_exc |-> ctx.exc, ctx_value |-> ctx.value,
     shot_exc |-> shot.exc, shot_error |-> shot.error]

NotCalled == Result(Provider, "n/a", "n/a", None, <<>>, FALSE)

NoCall ==
    [op |-> "none", url |-> None,
     before |-> [session |-> "None", last_known_url |-> None, open_sessions |-> 0],
     exc |-> NoError, error |-> NoError, value |-> None, requests |-> <<>>,
     ensured |-> FALSE, ctx_exc |-> "n/a", ctx_value |-> None,
     shot_exc |-> "n/a", shot_error |-> "n/a"]

NoChk == [url |-> None, result |-> FALSE]

Finish(op, url, r, ctx, shot) ==
    /\ session' = r.p.session
    /\ last_known_url' = r.p.last_known_url
    /\ open_sessions' = r.p.open_sessions
    /\ call' = Call(op, url, Provider, r, ctx, shot)
    /\ UNCHANGED <<config, chk>>
    /\ UNCHANGED svars
    /\ UNCHANGED avars

GetCurrentContext ==
    \E url \in ProviderUrlArgs, resp \in ContextResponses :
        Finish("get_current_context", url,
               get_current_context(Provider, url, resp), NotCalled, NotCalled)

GetScreenshot ==
    \E url \in ProviderUrlArgs, sresp \in ScreenshotResponses :
        Finish("get_screenshot", url,
               get_screenshot(Provider, url, sresp), NotCalled, NotCalled)

GetContextWithScreenshot ==
    \E url \in ProviderUrlArgs, resp \in ContextResponses,
       sresp \in ScreenshotResponses :
        LET c == get_current_context(Provider, url, resp)
            shot == IF c.exc # NoError THEN NotCalled
                    ELSE get_screenshot(c.p, url, sresp)
        IN Finish("get_context_with_screenshot", url,
                  get_context_with_screenshot(Provider, url, resp, sresp), c, shot)

\* cleanup: close the session when there is an open one
Cleanup ==
    /\ session' = IF session = "open" THEN "closed" ELSE session
    /\ open_sessions' = IF session = "open" THEN open_sessions - 1 ELSE open_sessions
    /\ call' = [NoCall EXCEPT !.op = "cleanup", !.before = Provider]
    /\ UNCHANGED <<config, last_known_url, chk>>
    /\ UNCHANGED svars
    /\ UNCHANGED avars

NextProvider ==
    \/ GetCurrentContext
    \/ GetScreenshot
    \/ GetContextWithScreenshot
    \/ Cleanup

\* one is_screenshot_allowed(url) call
IsScreenshotAllowed ==
    /\ \E url \in Urls : chk' = [url |-> url, result |-> is_screenshot_allowed(url)]
    /\ UNCHANGED <<config, session, last_known_url, call, open_sessions>>
    /\ UNCHANGED svars
    /\ UNCHANGED avars

----------------------------------------------------------------------------
(* Context model and analyzer (types.py, context_analyzer.py) *)

UpperChars == <<"A", "B", "C", "D", "E", "F", "G", "H", "I", "J", "K", "L", "M", "N", "O", "P", "Q", "R", "S", "T", "U", "V", "W", "X", "Y", "Z">>
LowerChars == <<"a", "b", "c", "d", "e", "f", "g", "h", "i", "j", "k", "l", "m", "n", "o", "p", "q", "r", "s", "t", "u", "v", "w", "x", "y", "z">>

\* str.lower(), character by character
LowerChar(ch) ==
    IF \E i \in 1..Len(UpperChars) : UpperChars[i] = ch
    THEN LowerChars[CHOOSE i \in 1..Len(UpperChars) : UpperChars[i] = ch]
    ELSE ch

Lower(s) == [i \in 1..Len(s) |-> LowerChar(s[i])]

\* str(x) inside an f-string
Str(x) == IF x = None THEN <<"N", "o", "n", "e">> ELSE x

\* any(keyword in s for keyword in keywords)
AnyKeywordIn(keywords, s) == \E k \in keywords : StrIn(k, s)

CheckoutKeywords == {<<"c", "h", "e", "c", "k", "o", "u", "t">>, <<"c", "a", "r", "t">>, <<"p", "a", "y", "m", "e", "n", "t">>, <<"b", "i", "l", "l", "i", "n", "g">>}
DashboardKeywords == {<<"d", "a", "s", "h", "b", "o", "a", "r", "d">>, <<"a", "d", "m", "i", "n">>, <<"p", "a", "n", "e", "l">>}
ErrorKeywords == {<<"e", "r", "r", "o", "r">>, <<"4", "0", "4">>, <<"5", "0", "0">>, <<"n", "o", "t", " ", "f", "o", "u", "n", "d">>, <<"s", "e", "r", "v", "e", "r", " ", "e", "r", "r", "o", "r">>}
LoadingKeywords == {<<"l", "o", "a", "d", "i", "n", "g">>, <<"p", "l", "e", "a", "s", "e", " ", "w", "a", "i", "t">>, <<"p", "r", "o", "c", "e", "s", "s", "i", "n", "g">>}

\* `.lower()` on a url or title that is None raises AttributeError
determine_page_type_raises(context) == context.url = None \/ context.title = None

determine_page_type_title_first(context) ==
    LET url == Lower(context.url)
        title == Lower(context.title)
        text == IF context.dom.some /\ Truthy(context.dom.text)
                THEN Lower(context.dom.text) ELSE <<>>
    IN CASE AnyKeywordIn(ErrorKeywords, title \o text) -> "error"
         [] AnyKeywordIn(LoadingKeywords, title \o text) -> "loading"
         [] AnyKeywordIn(CheckoutKeywords, url) -> "checkout"
         [] AnyKeywordIn(DashboardKeywords, url) -> "dashboard"
         [] context.dom.some /\ Len(context.dom.forms) > 0 -> "form"
         [] OTHER -> "content"

determine_page_type(context) ==
    LET url == Lower(context.url)
        title == Lower(context.title)
        text == IF context.dom.some /\ Truthy(context.dom.text)
                THEN Lower(context.dom.text) ELSE <<>>
    IN CASE AnyKeywordIn(CheckoutKeywords, url) -> "checkout"
         [] AnyKeywordIn(DashboardKeywords, url) -> "dashboard"
         [] AnyKeywordIn(ErrorKeywords, title \o text) -> "error"
         [] AnyKeywordIn(LoadingKeywords, title \o text) -> "loading"
         [] context.dom.some /\ Len(context.dom.forms) > 0 -> "form"
         [] OTHER -> "content"

\* f"#{id}" if id else f"[name='{name}']"
Selector(field) ==
    IF Truthy(field.id) THEN <<"#">> \o field.id
    ELSE <<"[", "n", "a", "m", "e", "=", "'">> \o Str(field.name) \o <<"'", "]">>

Issue(type, severity, element) ==
    [type |-> type, severity |-> severity, element |-> element]

RECURSIVE ValidationIssues(_)
\* first loop of _identify_issues: empty required page-level inputs
ValidationIssues(inputs) ==
    IF inputs = <<>> THEN <<>>
    ELSE (IF Head(inputs).required /\ ~Truthy(Head(inputs).value)
          THEN << Issue("validation", "medium", Selector(Head(inputs))) >>
          ELSE <<>>) \o ValidationIssues(Tail(inputs))

RECURSIVE AccessibilityIssues(_)
\* second loop of _identify_issues: inputs with neither placeholder nor name
AccessibilityIssues(inputs) ==
    IF inputs = <<>> THEN <<>>
    ELSE (IF ~Truthy(Head(inputs).placeholder) /\ ~Truthy(Head(inputs).name)
          THEN << Issue("accessibility", "low",
                        IF Truthy(Head(inputs).id) THEN <<"#">> \o Head(inputs).id
                        ELSE <<"i", "n", "p", "u", "t">>) >>
          ELSE <<>>) \o AccessibilityIssues(Tail(inputs))

LargeText == 50000
MobileWidth == 768

identify_issues_viewport_first(context) ==
    (IF context.viewport.some /\ context.viewport.width < MobileWidth
     THEN << Issue("usability", "low", <<"v", "i", "e", "w", "p", "o", "r", "t">>) >> ELSE <<>>)
    \o (IF ~context.dom.some THEN <<>>
        ELSE ValidationIssues(context.dom.inputs)
             \o AccessibilityIssues(context.dom.inputs)
             \o (IF Len(context.dom.text) > LargeText
                 THEN << Issue("performance", "medium", <<"b", "o", "d", "y">>) >> ELSE <<>>))

identify_issues(context) ==
    IF ~context.dom.some THEN <<>>
    ELSE ValidationIssues(context.dom.inputs)
         \o AccessibilityIssues(context.dom.inputs)
         \o (IF Len(context.dom.text) > LargeText
             THEN << Issue("performance", "medium", <<"b", "o", "d", "y">>) >> ELSE <<>>)
         \o (IF context.viewport.some /\ context.viewport.width < MobileWidth
             THEN << Issue("usability", "low", <<"v", "i", "e", "w", "p", "o", "r", "t">>) >> ELSE <<>>)

calculate_confidence_unclamped(context, issues) ==
    50 + (IF context.dom.some /\ Truthy(context.dom.text) THEN 20 ELSE 0)
       + (IF context.dom.some /\ context.dom.forms # <<>> THEN 10 ELSE 0)
       + (IF context.viewport.some THEN 10 ELSE 0)
       + (IF issues # <<>> THEN Min(20, Len(issues) * 5) ELSE 0)

\* _calculate_confidence, in hundredths: 0.5, +0.2 for dom text, +0.1 for
\* forms, +0.1 for a viewport, +min(0.2, 0.05 per issue), then min(1.0, .)
calculate_confidence(context, issues) ==
    Min(100,
        50 + (IF context.dom.some /\ Truthy(context.dom.text) THEN 20 ELSE 0)
           + (IF context.dom.some /\ context.dom.forms # <<>> THEN 10 ELSE 0)
           + (IF context.viewport.some THEN 10 ELSE 0)
           + (IF issues # <<>> THEN Min(20, Len(issues) * 5) ELSE 0))

\* ContextAnalysis; userIntent and suggestions do not reach the instructions
analyze_context(context) ==
    LET issues == identify_issues(context)
    IN [pageType |-> determine_page_type(context), issues |-> issues,
        confidence |-> calculate_confidence(context, issues)]

analyze_context_raises(context) == determine_page_type_raises(context)

\* an instruction dict without its fresh uuid and emission timestamp
Instruction(type, priority, action, selector, n) ==
    [type |-> type, priority |-> priority, action |-> action,
     selector |-> selector, n |-> n]

NoInstruction == Instruction("none", "none", "none", <<>>, 0)

RECURSIVE RequiredEmpty(_)
\* [field for field in form.fields if field.required and not field.value]
RequiredEmpty(fields) ==
    IF fields = <<>> THEN <<>>
    ELSE (IF Head(fields).required /\ ~Truthy(Head(fields).value)
          THEN << Head(fields) >> ELSE <<>>) \o RequiredEmpty(Tail(fields))

HighlightLimit == 3

FormInstructions_uncapped(form) ==
    LET empty == RequiredEmpty(form.fields)
    IN [i \in 1..Len(empty) |->
            Instruction("form_assistance", "medium", "highlight_field",
                        Selector(empty[i]), 0)]
       \o (IF Len(empty) > 0
           THEN << Instruction("contextual_notification", "medium",
                               "complete_required_fields", <<>>, Len(empty)) >>
           ELSE <<>>)

\* the instructions of one form: a highlight for each of the first three empty
\* required fields, then the aggregate notification
FormInstructions(form) ==
    LET empty == RequiredEmpty(form.fields)
    IN [i \in 1..Min(Len(empty), HighlightLimit) |->
            Instruction("form_assistance", "medium", "highlight_field",
                        Selector(empty[i]), 0)]
       \o (IF Len(empty) > 0
           THEN << Instruction("contextual_notification", "medium",
                               "complete_required_fields", <<>>, Len(empty)) >>
           ELSE <<>>)

RECURSIVE AllFormInstructions(_)
AllFormInstructions(forms) ==
    IF forms = <<>> THEN <<>>
    ELSE FormInstructions(Head(forms)) \o AllFormInstructions(Tail(forms))

generate_form_instructions(context) ==
    IF ~context.dom.some \/ context.dom.forms = <<>> THEN <<>>
    ELSE AllFormInstructions(context.dom.forms)

generate_checkout_instructions_medium ==
    << Instruction("contextual_notification", "medium", "review_order", <<>>, 0) >>

generate_checkout_instructions ==
    << Instruction("contextual_notification", "high", "review_order", <<>>, 0) >>

generate_error_instructions ==
    << Instruction("contextual_notification", "high", "error_page", <<>>, 0) >>

generate_usability_instructions(context) ==
    IF context.viewport.some /\ context.viewport.width < MobileWidth
    THEN << Instruction("content_instruction", "low", "show_tooltip", <<"b", "o", "d", "y">>, 0) >>
    ELSE <<>>

generate_issue_instructions(issue) ==
    IF issue.type = "validation" /\ Truthy(issue.element)
    THEN << Instruction("form_assistance",
                        IF issue.severity = "high" THEN "high" ELSE "medium",
                        "show_error", issue.element, 0) >>
    ELSE IF issue.type = "accessibility"
    THEN << Instruction("contextual_notification", "low",
                        "accessibility_warning", <<>>, 0) >>
    ELSE <<>>

RECURSIVE AllIssueInstructions(_)
AllIssueInstructions(issues) ==
    IF issues = <<>> THEN <<>>
    ELSE generate_issue_instructions(Head(issues)) \o AllIssueInstructions(Tail(issues))

generate_instructions_issues_first(context, analysis) ==
    AllIssueInstructions(analysis.issues)
    \o (IF analysis.pageType = "form" THEN generate_form_instructions(context) ELSE <<>>)
    \o (IF analysis.pageType = "checkout" THEN generate_checkout_instructions ELSE <<>>)
    \o (IF analysis.pageType = "error" THEN generate_error_instructions ELSE <<>>)
    \o generate_usability_instructions(context)

generate_instructions(context, analysis) ==
    (IF analysis.pageType = "form" THEN generate_form_instructions(context) ELSE <<>>)
    \o (IF analysis.pageType = "checkout" THEN generate_checkout_instructions ELSE <<>>)
    \o (IF analysis.pageType = "error" THEN generate_error_instructions ELSE <<>>)
    \o generate_usability_instructions(context)
    \o AllIssueInstructions(analysis.issues)

\* before analyze_context or _parse_context has been applied to page_context
NoAnalysis ==
    [done |-> FALSE, raised |-> FALSE, pageType |-> "none", issues |-> <<>>,
     confidence |-> 0, instructions |-> <<>>]

NoReparse ==
    [done |-> FALSE, raised |-> FALSE,
     value |-> PageContext(<<>>, <<>>, 0, NoDom, NoViewport, EmptyDict)]

\* before analyze_user_behavior has been applied to the history
NoBehavior ==
    [done |-> FALSE, empty |-> FALSE, pages_visited |-> 0, page_types |-> {},
     time_total |-> 0, time_pages |-> 0, most_visited_page_type |-> "none",
     behavior_patterns |-> <<>>]

InitIdlePages ==
    /\ page_context = PageContext(<<>>, <<>>, 0, NoDom, NoViewport, EmptyDict)
    /\ analyzed = NoAnalysis
    /\ reparsed = NoReparse
    /\ visited = <<>>
    /\ behavior = NoBehavior

----------------------------------------------------------------------------
(* WebSocket session protocol (examples/react-fastapi/backend/main.py) *)

\* the connections served concurrently, one websocket_endpoint coroutine each
Clients == {"c1", "c2"}

client_id_shared(c) == <<"client_", "0">>

\* client_id = f"client_{id(websocket)}": distinct for objects alive together
client_id(c) == <<"client_", c>>

DefaultKey == <<"d", "e", "f", "a", "u", "l", "t">>

\* JSON objects as the handler reads them: the keys it looks up, Absent for a
\* key that is missing; isdict is FALSE for a JSON value that is no object
WireInput(id, name, value, placeholder, required) ==
    [id |-> id, name |-> name, value |-> value, placeholder |-> placeholder,
     required |-> required]

WireDom(text, forms, inputs) ==
    [some |-> TRUE, text |-> text, forms |-> forms, inputs |-> inputs]

WireData(url, title, timestamp, dom, viewport) ==
    [isdict |-> TRUE, url |-> url, title |-> title, timestamp |-> timestamp,
     dom |-> dom, viewport |-> viewport, screenshot |-> Absent, success |-> FALSE]

NoWireDom == [some |-> FALSE, text |-> Absent, forms |-> <<>>, inputs |-> <<>>]

EmptyObject == WireData(Absent, Absent, 0, NoWireDom, NoViewport)

NotAnObject == [EmptyObject EXCEPT !.isdict = FALSE]

\* dict.get(key, default)
Get(value, default) == IF value = Absent THEN default ELSE value

ConvertInput(f) ==
    [id |-> Get(f.id, None), name |-> Get(f.name, None), value |-> Get(f.value, None),
     placeholder |-> Get(f.placeholder, None), required |-> f.required]

ConvertForm(form) ==
    [fields |-> [i \in 1..Len(form.fields) |-> ConvertInput(form.fields[i])]]

\* data.get(...) on a value that is no dict raises AttributeError
convert_dict_to_page_context_raises(data) == ~data.isdict

convert_dict_to_page_context(data) ==
    [url |-> Get(data.url, <<>>),
     title |-> Get(data.title, <<>>),
     timestamp |-> data.timestamp,
     dom |-> IF data.dom.some
             THEN [some |-> TRUE,
                   text |-> Get(data.dom.text, <<>>),
                   forms |-> [i \in 1..Len(data.dom.forms) |->
                                 ConvertForm(data.dom.forms[i])],
                   inputs |-> [i \in 1..Len(data.dom.inputs) |->
                                 ConvertInput(data.dom.inputs[i])]]
             ELSE NoDom,
     viewport |-> IF data.viewport.some
                  THEN [some |-> TRUE, width |-> data.viewport.width]
                  ELSE NoViewport]

\* dict assignment d[k] = v
Put(d, k, v) == [x \in DOMAIN d \cup {k} |-> IF x = k THEN v ELSE d[x]]

\* del d[k]
Del(d, k) == [x \in DOMAIN d \ {k} |-> d[x]]

HistoryLimit == 10
HistoryKeep == 10

trim_history_keeps_first(h) ==
    IF Len(h) > HistoryLimit THEN SubSeq(h, 1, HistoryKeep) ELSE h

trim_history_off_by_one(h) ==
    IF Len(h) > HistoryLimit + 1 THEN SubSeq(h, Len(h) - HistoryKeep + 1, Len(h)) ELSE h

\* if len(h) > 10: h = h[-10:]
trim_history(h) ==
    IF Len(h) > HistoryLimit THEN SubSeq(h, Len(h) - HistoryKeep + 1, Len(h)) ELSE h

\* lines 160-166: append the context to the session's history and trim it
store_history(hist, key, context) ==
    LET h == IF key \in DOMAIN hist THEN hist[key] ELSE <<>>
    IN Put(hist, key, trim_history(Append(h, context)))

\* an inbound frame: text that is no JSON, JSON that is no object, or a message
Frame(wire, type, data) == [wire |-> wire, type |-> type, data |-> data]

NoFrame == Frame("none", "none", EmptyObject)

ContextTypes == {"context", "context_change"}

\* an outbound message: its type and, for "instruction", the instruction
Out(type, instr) == [type |-> type, instr |-> instr]

\* the session's own history, <<>> when it has no entry
History(c) ==
    IF client_id(c) \in DOMAIN context_history THEN context_history[client_id(c)]
    ELSE <<>>

\* where the handler goes once analyze_and_send_instructions has returned: the
\* context branch sends its acknowledgment, the context_change branch is done
AfterAnalysis(type) == IF type = "context" THEN "send_ack" ELSE "recv"

InitSession ==
    /\ context_storage = << >>
    /\ screenshot_storage = << >>
    /\ context_history = << >>
    /\ pc = [c \in Clients |-> "accept"]
    /\ conn = [c \in Clients |-> "open"]
    /\ msg = [c \in Clients |-> NoFrame]
    /\ todo = [c \in Clients |-> <<>>]
    /\ sent = [c \in Clients |-> <<>>]
    /\ nrecv = [c \in Clients |-> 0]
    /\ ended_by = [c \in Clients |-> "none"]

\* await websocket.accept()
Accept(c) ==
    /\ UNCHANGED pvars
    /\ UNCHANGED avars
    /\ pc[c] = "accept"
    /\ pc' = [pc EXCEPT ![c] = "recv"]
    /\ UNCHANGED <<context_storage, screenshot_storage, context_history, conn, msg,
                   todo, sent, nrecv, ended_by>>

\* the two except clauses of websocket_endpoint: only WebSocketDisconnect
\* deletes the session's history; any other exception closes the socket
Outer(c, exc) ==
    /\ pc' = [pc EXCEPT ![c] = "ended"]
    /\ ended_by' = [ended_by EXCEPT ![c] = exc]
    /\ context_history' =
          IF exc = "WebSocketDisconnect" /\ client_id(c) \in DOMAIN context_history
          THEN Del(context_history, client_id(c))
          ELSE context_history

\* message.get("data", {}).get("url", "unknown")
UnknownUrl == <<"u", "n", "k", "n", "o", "w", "n">>

store_screenshot_url_only(storage, data) ==
    Put(storage, Get(data.url, UnknownUrl), data.screenshot)

\* screenshot_storage[url] = screenshot_data;
\* screenshot_storage["default"] = screenshot_data
store_screenshot(storage, data) ==
    Put(Put(storage, Get(data.url, UnknownUrl), data.screenshot),
        DefaultKey, data.screenshot)

HandleContext_appends_first(c, frame) ==
    LET data == frame.data
        context == convert_dict_to_page_context(data)
        instructions == generate_instructions(context, analyze_context(context))
    IN IF convert_dict_to_page_context_raises(data)
       THEN /\ pc' = [pc EXCEPT ![c] =
                        IF frame.type = "context" THEN "send_err" ELSE "recv"]
            /\ UNCHANGED <<context_storage, context_history, todo>>
       ELSE /\ context_storage' =
                  IF frame.type = "context"
                  THEN Put(Put(context_storage, context.url, context),
                           DefaultKey, context)
                  ELSE context_storage
            /\ IF analyze_context_raises(context)
               THEN /\ pc' = [pc EXCEPT ![c] = AfterAnalysis(frame.type)]
                    /\ UNCHANGED <<context_history, todo>>
               ELSE IF instructions = <<>>
               THEN /\ context_history' =
                          store_history(context_history, client_id(c), context)
                    /\ pc' = [pc EXCEPT ![c] = AfterAnalysis(frame.type)]
                    /\ UNCHANGED todo
               ELSE /\ todo' = [todo EXCEPT ![c] = instructions]
                    /\ pc' = [pc EXCEPT ![c] = "send_instr"]
                    /\ context_history' =
                          store_history(context_history, client_id(c), context)

\* a context or context_change message, up to its first await
HandleContext(c, frame) ==
    LET data == frame.data
        context == convert_dict_to_page_context(data)
        instructions == generate_instructions(context, analyze_context(context))
    IN IF convert_dict_to_page_context_raises(data)
       THEN /\ pc' = [pc EXCEPT ![c] =
                        IF frame.type = "context" THEN "send_err" ELSE "recv"]
            /\ UNCHANGED <<context_storage, context_history, todo>>
       ELSE /\ context_storage' =
                  IF frame.type = "context"
                  THEN Put(Put(context_storage, context.url, context),
                           DefaultKey, context)
                  ELSE context_storage
            /\ IF analyze_context_raises(context)
               THEN /\ pc' = [pc EXCEPT ![c] = AfterAnalysis(frame.type)]
                    /\ UNCHANGED <<context_history, todo>>
               ELSE IF instructions = <<>>
               THEN /\ context_history' =
                          store_history(context_history, client_id(c), context)
                    /\ pc' = [pc EXCEPT ![c] = AfterAnalysis(frame.type)]
                    /\ UNCHANGED todo
               ELSE /\ todo' = [todo EXCEPT ![c] = instructions]
                    /\ pc' = [pc EXCEPT ![c] = "send_instr"]
                    /\ UNCHANGED context_history

\* data = await websocket.receive_text() returns a frame, which is dispatched
\* up to the first await of its branch
Receive(c, frame) ==
    /\ UNCHANGED pvars
    /\ UNCHANGED avars
    /\ pc[c] = "recv"
    /\ conn[c] = "open"
    /\ msg' = [msg EXCEPT ![c] = frame]
    /\ sent' = [sent EXCEPT ![c] = <<>>]
    /\ nrecv' = [nrecv EXCEPT ![c] = @ + 1]
    /\ UNCHANGED conn
    /\ CASE frame.wire # "json_object" ->
              \* json.loads or message.get raises: the outer except Exception
              /\ Outer(c, "Exception")
              /\ UNCHANGED <<context_storage, screenshot_storage, todo>>
         [] frame.wire = "json_object" /\ frame.type \in ContextTypes ->
              /\ HandleContext(c, frame)
              /\ UNCHANGED <<screenshot_storage, ended_by>>
         [] frame.wire = "json_object" /\ frame.type = "screenshot" ->
              IF ~frame.data.isdict
              THEN /\ Outer(c, "Exception")
                   /\ UNCHANGED <<context_storage, screenshot_storage, todo>>
              ELSE IF Truthy(Get(frame.data.screenshot, None))
              THEN /\ screenshot_storage' = store_screenshot(screenshot_storage, frame.data)
                   /\ pc' = [pc EXCEPT ![c] = "send"]
                   /\ UNCHANGED <<context_storage, context_history, todo, ended_by>>
              ELSE /\ UNCHANGED <<context_storage, screenshot_storage, context_history,
                                  todo, ended_by, pc>>
         [] frame.wire = "json_object" /\ frame.type = "instruction_result" ->
              IF ~frame.data.isdict
              THEN /\ Outer(c, "Exception")
                   /\ UNCHANGED <<context_storage, screenshot_storage, todo>>
              ELSE UNCHANGED <<context_storage, screenshot_storage, context_history,
                               todo, ended_by, pc>>
         [] frame.wire = "json_object" /\ frame.type = "pong" ->
              UNCHANGED <<context_storage, screenshot_storage, context_history,
                          todo, ended_by, pc>>
         [] OTHER ->
              \* auth, and the echo of any other type: one send
              /\ pc' = [pc EXCEPT ![c] = "send"]
              /\ UNCHANGED <<context_storage, screenshot_storage, context_history,
                             todo, ended_by>>

\* the exceptions an I/O call on the websocket raises
IOErrors == {"WebSocketDisconnect", "Exception"}

\* receive_text raises: the client went away (WebSocketDisconnect) or the
\* frame cannot be read as text
ReceiveFails(c, exc) ==
    /\ UNCHANGED pvars
    /\ UNCHANGED avars
    /\ pc[c] = "recv"
    /\ conn' = [conn EXCEPT ![c] = "dead"]
    /\ Outer(c, exc)
    /\ UNCHANGED <<context_storage, screenshot_storage, msg, todo, sent, nrecv>>

\* a send succeeds on an open connection only; a failed send leaves it dead
SendOutcomes(c) == IF conn[c] = "open" THEN {"ok"} \cup IOErrors ELSE IOErrors

\* what the single send of an auth, screenshot or other message carries
ReplyType(frame) ==
    CASE frame.type = "auth" -> "auth_response"
      [] frame.type = "screenshot" -> "screenshot_ack"
      [] OTHER -> "echo"

\* the screenshot_ack: the url the payload was stored under and
\* len(screenshot_data)
ScreenshotAck(data) ==
    [type |-> "screenshot_ack", instr |-> NoInstruction,
     url |-> Get(data.url, UnknownUrl), size |-> Len(data.screenshot)]

\* the message the single send of an auth, screenshot or other message sends
Reply(frame) ==
    IF frame.type = "screenshot" THEN ScreenshotAck(frame.data)
    ELSE Out(ReplyType(frame), NoInstruction)

SendInstruction_last_first(c, outcome) ==
    /\ UNCHANGED pvars
    /\ UNCHANGED avars
    /\ pc[c] = "send_instr"
    /\ IF outcome = "ok"
       THEN /\ sent' = [sent EXCEPT ![c] = Append(@, Out("instruction", todo[c][Len(todo[c])]))]
            /\ pc' = [pc EXCEPT ![c] = "sleep"]
            /\ UNCHANGED <<conn, todo>>
       ELSE /\ conn' = [conn EXCEPT ![c] = "dead"]
            /\ todo' = [todo EXCEPT ![c] = <<>>]
            /\ pc' = [pc EXCEPT ![c] = AfterAnalysis(msg[c].type)]
            /\ UNCHANGED sent
    /\ UNCHANGED <<context_storage, screenshot_storage, context_history, msg, nrecv,
                   ended_by>>

\* lines 145-157: send the next instruction; an exception ends
\* analyze_and_send_instructions (line 168) without the history append
SendInstruction(c, outcome) ==
    /\ UNCHANGED pvars
    /\ UNCHANGED avars
    /\ pc[c] = "send_instr"
    /\ IF outcome = "ok"
       THEN /\ sent' = [sent EXCEPT ![c] = Append(@, Out("instruction", Head(todo[c])))]
            /\ pc' = [pc EXCEPT ![c] = "sleep"]
            /\ UNCHANGED <<conn, todo>>
       ELSE /\ conn' = [conn EXCEPT ![c] = "dead"]
            /\ todo' = [todo EXCEPT ![c] = <<>>]
            /\ pc' = [pc EXCEPT ![c] = AfterAnalysis(msg[c].type)]
            /\ UNCHANGED sent
    /\ UNCHANGED <<context_storage, screenshot_storage, context_history, msg, nrecv,
                   ended_by>>

\* await asyncio.sleep(0.1) returns: the next instruction, or after the last
\* one the history append of lines 160-166
Sleep(c) ==
    /\ UNCHANGED pvars
    /\ UNCHANGED avars
    /\ pc[c] = "sleep"
    /\ todo' = [todo EXCEPT ![c] = Tail(@)]
    /\ IF Tail(todo[c]) # <<>>
       THEN /\ pc' = [pc EXCEPT ![c] = "send_instr"]
            /\ UNCHANGED context_history
       ELSE /\ context_history' =
                  store_history(context_history, client_id(c),
                                convert_dict_to_page_context(msg[c].data))
            /\ pc' = [pc EXCEPT ![c] = AfterAnalysis(msg[c].type)]
    /\ UNCHANGED <<context_storage, screenshot_storage, conn, msg, sent, nrecv,
                   ended_by>>

\* lines 423-433: send context_received; an exception goes to line 434
SendAck(c, outcome) ==
    /\ UNCHANGED pvars
    /\ UNCHANGED avars
    /\ pc[c] = "send_ack"
    /\ IF outcome = "ok"
       THEN /\ sent' = [sent EXCEPT ![c] = Append(@, Out("context_received", NoInstruction))]
            /\ pc' = [pc EXCEPT ![c] = "recv"]
            /\ UNCHANGED conn
       ELSE /\ conn' = [conn EXCEPT ![c] = "dead"]
            /\ pc' = [pc EXCEPT ![c] = "send_err"]
            /\ UNCHANGED sent
    /\ UNCHANGED <<context_storage, screenshot_storage, context_history, msg, todo,
                   nrecv, ended_by>>

\* lines 436-447: send context_error; an exception leaves the loop
SendError(c, outcome) ==
    /\ UNCHANGED pvars
    /\ UNCHANGED avars
    /\ pc[c] = "send_err"
    /\ IF outcome = "ok"
       THEN /\ sent' = [sent EXCEPT ![c] = Append(@, Out("context_error", NoInstruction))]
            /\ pc' = [pc EXCEPT ![c] = "recv"]
            /\ UNCHANGED <<conn, context_history, ended_by>>
       ELSE /\ conn' = [conn EXCEPT ![c] = "dead"]
            /\ Outer(c, outcome)
            /\ UNCHANGED sent
    /\ UNCHANGED <<context_storage, screenshot_storage, msg, todo, nrecv>>

\* the send of auth_response, screenshot_ack or echo; an exception leaves the loop
SendReply(c, outcome) ==
    /\ UNCHANGED pvars
    /\ UNCHANGED avars
    /\ pc[c] = "send"
    /\ IF outcome = "ok"
       THEN /\ sent' = [sent EXCEPT ![c] = Append(@, Reply(msg[c]))]
            /\ pc' = [pc EXCEPT ![c] = "recv"]
            /\ UNCHANGED <<conn, context_history, ended_by>>
       ELSE /\ conn' = [conn EXCEPT ![c] = "dead"]
            /\ Outer(c, outcome)
            /\ UNCHANGED sent
    /\ UNCHANGED <<context_storage, screenshot_storage, msg, todo, nrecv>>

----------------------------------------------------------------------------
(* The messages the sessions are explored under *)

HomeData(ts) == WireData(<<"/", "h", "o", "m", "e">>, <<"H", "o", "m", "e">>, ts, NoWireDom, NoViewport)

CartData(ts) == WireData(<<"/", "c", "a", "r", "t">>, <<"C", "a", "r", "t">>, ts, NoWireDom, NoViewport)

\* {url: "/signup", dom: {forms: [{fields: [{name: "email", required: true,
\* value: null}]}]}}
SignupData(ts) ==
    WireData(<<"/", "s", "i", "g", "n", "u", "p">>, Absent, ts,
             WireDom(Absent,
                     << [fields |-> << WireInput(Absent, <<"e", "m", "a", "i", "l">>, None, Absent, TRUE) >>] >>,
                     <<>>),
             NoViewport)

\* {url: null, title: "x"}
NullUrlData(ts) == WireData(None, <<"x">>, ts, NoWireDom, NoViewport)

ScreenshotData == [EmptyObject EXCEPT !.screenshot = Image, !.url = <<"/", "c", "a", "r", "t">>]

\* {screenshot: "jj"}: no url
NoUrlScreenshotData == [EmptyObject EXCEPT !.screenshot = <<"j", "j">>]

ContextPayloads == {HomeData(1), SignupData(1), NullUrlData(1), NotAnObject}

Frames ==
    {Frame("not_json", "none", EmptyObject), Frame("not_object", "none", EmptyObject)}
        \cup {Frame("json_object", t, d) : t \in ContextTypes, d \in ContextPayloads}
        \cup {Frame("json_object", t, EmptyObject) : t \in {"auth", "pong", "hello"}}
        \cup {Frame("json_object", "screenshot", d) :
                d \in {ScreenshotData, NoUrlScreenshotData, EmptyObject, NotAnObject}}
        \cup {Frame("json_object", "instruction_result", d) :
                d \in {EmptyObject, NotAnObject}}

MaxFrames == 3

RECURSIVE Sum(_, _)
Sum(f, S) == IF S = {} THEN 0
             ELSE LET x == CHOOSE y \in S : TRUE IN f[x] + Sum(f, S \ {x})

Init ==
    /\ InitSession
    /\ config = [base_url |-> None, enable_screenshots |-> FALSE,
                 whitelisted_pages |-> <<>>]
    /\ session = "None"
    /\ last_known_url = None
    /\ call = NoCall
    /\ chk = NoChk
    /\ open_sessions = 0
    /\ InitIdlePages

Next ==
    \E c \in Clients :
        \/ Accept(c)
        \/ \E frame \in Frames :
              /\ Sum(nrecv, Clients) < MaxFrames
              /\ Receive(c, frame)
        \/ \E exc \in IOErrors : ReceiveFails(c, exc)
        \/ \E outcome \in SendOutcomes(c) : SendInstruction(c, outcome)
        \/ Sleep(c)
        \/ \E outcome \in SendOutcomes(c) : SendAck(c, outcome)
        \/ \E outcome \in SendOutcomes(c) : SendError(c, outcome)
        \/ \E outcome \in SendOutcomes(c) : SendReply(c, outcome)

Spec == Init /\ [][Next]_vars

\* long sessions: each client sends context and context_change messages whose
\* timestamp is the message's number in its session, /cart (one instruction)
\* and /home (none) in turn
MaxMessages == 11

HistoryData(n) == IF n % 2 = 1 THEN CartData(n) ELSE HomeData(n)

HistoryFrames(c) ==
    {Frame("json_object", t, HistoryData(nrecv[c] + 1)) : t \in ContextTypes}

NextHistory ==
    \E c \in Clients :
        \/ Accept(c)
        \/ \E frame \in HistoryFrames(c) :
              /\ nrecv[c] < MaxMessages
              /\ Receive(c, frame)
        \/ \E exc \in IOErrors : ReceiveFails(c, exc)
        \/ \E outcome \in SendOutcomes(c) : SendInstruction(c, outcome)
        \/ Sleep(c)
        \/ \E outcome \in SendOutcomes(c) : SendAck(c, outcome)
        \/ \E outcome \in SendOutcomes(c) : SendError(c, outcome)

SpecHistory == Init /\ [][NextHistory]_vars

----------------------------------------------------------------------------
(* The provider alone: any sequence of calls on one provider instance *)

InitProvider ==
    /\ config \in ProviderConfigs
    /\ session = "None"
    /\ last_known_url = None
    /\ call = NoCall
    /\ chk = NoChk
    /\ open_sessions = 0
    /\ InitIdlePages
    /\ InitSession

SpecProvider == InitProvider /\ [][NextProvider]_vars

\* is_screenshot_allowed as a function of the configuration and the url
InitAllowed ==
    /\ config \in AllConfigs
    /\ session = "None"
    /\ last_known_url = None
    /\ call = NoCall
    /\ chk = NoChk
    /\ open_sessions = 0
    /\ InitIdlePages
    /\ InitSession

NextAllowed == IsScreenshotAllowed

SpecAllowed == InitAllowed /\ [][NextAllowed]_vars

----------------------------------------------------------------------------
(* The analyzer and the parser as functions of a page *)

MaxFields == 4
MaxForms == 2
MaxInputs == 2

Digits == <<"1", "2", "3", "4", "5", "6", "7", "8", "9">>

\* a form with k empty required fields f1..fk (value None and "" in turn),
\* a filled required field and an empty optional one
FormWith(k) ==
    FormData(None, <<"s", "i", "g", "n", "u", "p">>, None, <<"p", "o", "s", "t">>,
             [i \in 1..k |->
                 InputData(None, <<"f", Digits[i]>>, TextType,
                           IF i % 2 = 1 THEN None ELSE <<>>, None, TRUE)]
             \o << InputData(<<"o", "k">>, <<"o", "k">>, TextType, <<"v">>, None, TRUE),
                   InputData(None, <<"o", "p", "t">>, <<"e", "m", "a", "i", "l">>, None, <<"h", "i", "n", "t">>, FALSE) >>)

\* no empty required field, one, as many as are highlighted, and more
PageForms == {FormWith(k) : k \in {0, 1, MaxFields - 1, MaxFields}}

\* page-level inputs: required and empty with a name; required and empty with
\* an id but neither name nor placeholder; filled
PageInputs ==
    {InputData(None, <<"e", "m", "a", "i", "l">>, TextType, None, None, TRUE),
     InputData(<<"q">>, None, TextType, <<>>, None, TRUE),
     InputData(None, <<"n">>, TextType, <<"v">>, <<"p">>, FALSE)}

PageTexts == {<<>>, <<"P", "l", "e", "a", "s", "e", " ", "w", "a", "i", "t">>}

PageDoms ==
    {NoDom} \cup
    {DOMData(t, IF t = <<>> THEN None ELSE <<"<", "p", ">">>, fs, ins) :
        t \in PageTexts, fs \in SeqsUpTo(PageForms, MaxForms),
        ins \in SeqsUpTo(PageInputs, MaxInputs)}

PageViewports == {NoViewport, ViewportData(767, 600, 0, 0), ViewportData(768, 0, 5, 9)}

PageUrls == {<<"/", "s", "i", "g", "n", "u", "p">>, <<"/", "C", "a", "r", "t">>, <<"/", "a", "d", "m", "i", "n", "/", "b", "i", "l", "l", "i", "n", "g">>, <<"/", "p", "a", "n", "e", "l">>}

PageTitles == {<<>>, <<"S", "e", "r", "v", "e", "r", " ", "E", "r", "r", "o", "r">>, <<"L", "o", "a", "d", "i", "n", "g">>}

\* {url: "/signup", dom: {forms: [{fields: [{name: "email", required: true,
\* value: null}]}]}}
SignupPage ==
    PageContext(<<"/", "s", "i", "g", "n", "u", "p">>, <<>>, 1,
                DOMData(<<>>, None,
                        << FormData(None, None, None, None,
                                    << InputData(None, <<"e", "m", "a", "i", "l">>, TextType, None, None, TRUE) >>) >>,
                        <<>>),
                NoViewport, EmptyDict)

\* {url: "/checkout/review", title: "Review", dom: {forms: []}}
CheckoutReviewPage ==
    PageContext(<<"/", "c", "h", "e", "c", "k", "o", "u", "t", "/", "r", "e", "v", "i", "e", "w">>, <<"R", "e", "v", "i", "e", "w">>, 1, DOMData(<<>>, None, <<>>, <<>>),
                NoViewport, EmptyDict)

\* the pages the analyzer and the parser are applied to
InitPages ==
    /\ \/ page_context \in {SignupPage, CheckoutReviewPage}
       \/ \E u \in PageUrls, t \in PageTitles, d \in PageDoms, v \in PageViewports :
             page_context = PageContext(u, t, 1, d, v, EmptyDict)
    /\ analyzed = NoAnalysis
    /\ reparsed = NoReparse
    /\ visited = <<>>
    /\ behavior = NoBehavior
    /\ config = [base_url |-> None, enable_screenshots |-> FALSE,
                 whitelisted_pages |-> <<>>]
    /\ session = "None"
    /\ last_known_url = None
    /\ call = NoCall
    /\ chk = NoChk
    /\ open_sessions = 0
    /\ InitSession

\* analysis = analyze_context(context);
\* instructions = generate_instructions(context, analysis)
AnalyzeContext ==
    /\ ~analyzed.done
    /\ analyzed' =
          IF analyze_context_raises(page_context)
          THEN [NoAnalysis EXCEPT !.done = TRUE, !.raised = TRUE]
          ELSE LET a == analyze_context(page_context)
               IN [done |-> TRUE, raised |-> FALSE, pageType |-> a.pageType,
                   issues |-> a.issues, confidence |-> a.confidence,
                   instructions |-> generate_instructions(page_context, a)]
    /\ UNCHANGED <<page_context, reparsed, visited, behavior>>
    /\ UNCHANGED pvars
    /\ UNCHANGED svars

NextAnalyzer == AnalyzeContext

SpecAnalyzer == InitPages /\ [][NextAnalyzer]_vars

\* the wire shape of a PageContext: the fields of the context model under
\* their own names, the scroll offsets as scrollX and scrollY, None as null
to_wire_input(f) ==
    [id |-> f.id, name |-> f.name, type |-> f.type, value |-> f.value,
     placeholder |-> f.placeholder, required |-> f.required]

to_wire_form(form) ==
    [id |-> form.id, name |-> form.name, action |-> form.action,
     method |-> form.method,
     fields |-> [i \in 1..Len(form.fields) |-> to_wire_input(form.fields[i])]]

to_wire_dom(dom) ==
    IF dom.some
    THEN [text |-> dom.text, html |-> dom.html,
          forms |-> [i \in 1..Len(dom.forms) |-> to_wire_form(dom.forms[i])],
          inputs |-> [i \in 1..Len(dom.inputs) |-> to_wire_input(dom.inputs[i])]]
    ELSE JsonNull

to_wire_viewport(viewport) ==
    IF viewport.some
    THEN [width |-> viewport.width, height |-> viewport.height,
          scrollX |-> viewport.scroll_x, scrollY |-> viewport.scroll_y]
    ELSE JsonNull

to_wire(context) ==
    [url |-> context.url, title |-> context.title, timestamp |-> context.timestamp,
     dom |-> to_wire_dom(context.dom), viewport |-> to_wire_viewport(context.viewport),
     metadata |-> context.metadata]

\* _parse_context(data) on the wire form of page_context
ParseBack ==
    /\ ~reparsed.done
    /\ reparsed' =
          IF parse_context_raises(to_wire(page_context))
          THEN [NoReparse EXCEPT !.done = TRUE, !.raised = TRUE]
          ELSE [done |-> TRUE, raised |-> FALSE,
                value |-> parse_context(to_wire(page_context))]
    /\ UNCHANGED <<page_context, analyzed, visited, behavior>>
    /\ UNCHANGED pvars
    /\ UNCHANGED svars

NextRoundTrip == ParseBack

SpecRoundTrip == InitPages /\ [][NextRoundTrip]_vars

----------------------------------------------------------------------------
(* Behaviour analysis over a context history (context_analyzer.py) *)

\* "success" in ctx.url.lower() or "thank" in ctx.url.lower()
is_success_url(ctx) ==
    StrIn(<<"s", "u", "c", "c", "e", "s", "s">>, Lower(ctx.url)) \/ StrIn(<<"t", "h", "a", "n", "k">>, Lower(ctx.url))

\* [ctx for ctx in context_history if self._determine_page_type(ctx) == type],
\* as the positions of those snapshots
pages_of_type(history, type) ==
    {i \in 1..Len(history) :
        determine_page_type(history[i]) = type}

\* form_ctx.dom and form_ctx.dom.inputs and any input is required and empty
has_empty_required(ctx) ==
    /\ ctx.dom.some
    /\ \E i \in 1..Len(ctx.dom.inputs) :
          ctx.dom.inputs[i].required /\ ~Truthy(ctx.dom.inputs[i].value)

identify_behavior_patterns(history) ==
    IF Len(history) < 2 THEN <<>>
    ELSE
      LET form_pages == pages_of_type(history, "form")
          checkout_pages == pages_of_type(history, "checkout")
          error_pages == pages_of_type(history, "error")
      IN (IF /\ Cardinality(form_pages) > 1
             /\ \E i \in form_pages : has_empty_required(history[i])
          THEN << "form_abandonment" >> ELSE <<>>)
         \o (IF /\ checkout_pages # {}
                /\ ~\E i \in 1..Len(history) :
                       is_success_url(history[i])
             THEN << "checkout_abandonment" >> ELSE <<>>)
         \o (IF error_pages # {} THEN << "error_encountered" >> ELSE <<>>)

\* the time_spent dictionary: each url but the last snapshot's, with the sum
\* of the time differences to the snapshot after it
time_spent(history) ==
    LET firsts == 1..(Len(history) - 1)
        diff == [i \in firsts |->
                    history[i + 1].timestamp - history[i].timestamp]
    IN [u \in {history[i].url : i \in firsts} |->
           Sum(diff, {i \in firsts : history[i].url = u})]

\* the page types max(set(page_types), key=page_types.count) may return: the
\* iteration order of a set of strings decides between equal counts
most_visited_page_types(history) ==
    LET n == Len(history)
        count(t) == Cardinality(pages_of_type(history, t))
        types == {determine_page_type(history[i]) : i \in 1..n}
    IN {t \in types : \A t2 \in types : count(t) >= count(t2)}

\* analyze_user_behavior: {} for an empty history; the average time per page
\* is kept as the total and the number of pages it is divided by
analyze_user_behavior(history, most_visited) ==
    IF history = <<>>
    THEN [NoBehavior EXCEPT !.done = TRUE, !.empty = TRUE]
    ELSE
      LET n == Len(history)
          spent == time_spent(history)
      IN [done |-> TRUE, empty |-> FALSE,
          pages_visited |-> Cardinality({history[i].url : i \in 1..n}),
          page_types |-> {determine_page_type(history[i]) : i \in 1..n},
          time_total |-> Sum(spent, DOMAIN spent),
          time_pages |-> Cardinality(DOMAIN spent),
          most_visited_page_type |-> most_visited,
          behavior_patterns |-> identify_behavior_patterns(history)]

MaxHistory == 3

\* a page with a form and an empty required page-level input
SignupFormPage ==
    PageContext(<<"/", "s", "i", "g", "n", "u", "p">>, <<"S", "i", "g", "n", " ", "u", "p">>, 0,
                DOMData(<<>>, None, << FormWith(1) >>,
                        << InputData(None, <<"e", "m", "a", "i", "l">>, TextType, None, None, TRUE) >>),
                NoViewport, EmptyDict)

\* the snapshots a history is made of: a cart, an order confirmation under
\* the checkout path, a thank-you page, an error page, a form and a home page
BehaviorPages ==
    {PageContext(<<"/", "c", "a", "r", "t">>, <<"C", "a", "r", "t">>, 0, NoDom, NoViewport, EmptyDict),
     PageContext(<<"/", "c", "h", "e", "c", "k", "o", "u", "t", "/", "S", "u", "c", "c", "e", "s", "s">>, <<"D", "o", "n", "e">>, 0, NoDom, NoViewport, EmptyDict),
     PageContext(<<"/", "t", "h", "a", "n", "k", "s">>, <<"T", "h", "a", "n", "k", "s">>, 0, NoDom, NoViewport, EmptyDict),
     PageContext(<<"/", "o", "o", "p", "s">>, <<"S", "e", "r", "v", "e", "r", " ", "E", "r", "r", "o", "r">>, 0, NoDom, NoViewport, EmptyDict),
     SignupFormPage,
     PageContext(<<"/", "h", "o", "m", "e">>, <<"H", "o", "m", "e">>, 0, NoDom, NoViewport, EmptyDict)}

\* histories of up to MaxHistory snapshots, one taken every 10 time units
InitBehavior ==
    /\ \E h \in SeqsUpTo(BehaviorPages, MaxHistory) :
          visited = [i \in 1..Len(h) |-> [h[i] EXCEPT !.timestamp = 10 * i]]
    /\ behavior = NoBehavior
    /\ page_context = PageContext(<<>>, <<>>, 0, NoDom, NoViewport, EmptyDict)
    /\ analyzed = NoAnalysis
    /\ reparsed = NoReparse
    /\ config = [base_url |-> None, enable_screenshots |-> FALSE,
                 whitelisted_pages |-> <<>>]
    /\ session = "None"
    /\ last_known_url = None
    /\ call = NoCall
    /\ chk = NoChk
    /\ open_sessions = 0
    /\ InitSession

\* behavior = analyze_user_behavior(context_history)
AnalyzeUserBehavior ==
    /\ ~behavior.done
    /\ \E most_visited \in (IF visited = <<>> THEN {"none"}
                             ELSE most_visited_page_types(visited)) :
          behavior' = analyze_user_behavior(visited, most_visited)
    /\ UNCHANGED <<page_context, analyzed, reparsed, visited>>
    /\ UNCHANGED pvars
    /\ UNCHANGED svars

NextBehavior == AnalyzeUserBehavior

SpecBehavior == InitBehavior /\ [][NextBehavior]_vars

----------------------------------------------------------------------------
(* Claims about the provider *)

\* C1: get_context_with_screenshot never fails because of the screenshot:
\* when its context fetch succeeded and its screenshot call raised (whatever
\* the error), it raises nothing and returns the fetched context with
\* screenshot None.
C1_ScreenshotFailureSwallowed ==
    (/\ call.op = "get_context_with_screenshot"
     /\ call.ctx_exc = NoError
     /\ call.shot_exc \in ExceptionClasses)
        => /\ call.exc = NoError
           /\ call.value.context = call.ctx_value
           /\ call.value.screenshot = None

C1_Witness ==
    /\ call.op = "get_context_with_screenshot"
    /\ call.ctx_exc = NoError
    /\ call.shot_error = "transport"
    /\ call.exc = NoError
    /\ call.value.screenshot = None

\* p occurs in u at some position, character by character
C2_Occurs(p, u) ==
    \E i \in 1..(Len(u) + 1) :
        /\ i + Len(p) - 1 <= Len(u)
        /\ \A k \in 1..Len(p) : u[i + k - 1] = p[k]

\* C2: is_screenshot_allowed(url) is false whenever enable_screenshots is
\* false; true for every url when screenshots are enabled and the whitelist is
\* empty; otherwise true exactly when some whitelist pattern is a substring of
\* url.
C2_AllowedIffEnabledAndMatch ==
    chk.url # None =>
        /\ ~config.enable_screenshots => ~chk.result
        /\ (config.enable_screenshots /\ config.whitelisted_pages = <<>>) => chk.result
        /\ (config.enable_screenshots /\ config.whitelisted_pages # <<>>) =>
              (chk.result <=>
                 \E j \in 1..Len(config.whitelisted_pages) :
                     C2_Occurs(config.whitelisted_pages[j], chk.url))

C2_Witness ==
    /\ chk.url = <<"a", "b">>
    /\ config.enable_screenshots
    /\ config.whitelisted_pages = << <<"b">> >>
    /\ chk.result

\* the target a screenshot call must resolve, stated from the call's inputs
C4_Expected ==
    IF call.url # None /\ call.url # <<>> THEN call.url
    ELSE call.before.last_known_url

C3_Allowed(url) ==
    /\ config.enable_screenshots
    /\ \/ config.whitelisted_pages = <<>>
       \/ \E j \in 1..Len(config.whitelisted_pages) :
             C2_Occurs(config.whitelisted_pages[j], url)

\* C3: no screenshot request is ever issued for a target url that
\* is_screenshot_allowed rejects; a get_screenshot call whose target is
\* rejected fails with PermissionError (no transport error class), has issued
\* no request and has neither created nor used the transport session.
C3_PermissionBeforeRequest ==
    /\ \A i \in 1..Len(call.requests) :
          call.requests[i].endpoint = "/screenshot" => C3_Allowed(call.requests[i].url)
    /\ (/\ call.op = "get_screenshot"
        /\ config.base_url # None
        /\ C4_Expected # None /\ C4_Expected # <<>>
        /\ ~C3_Allowed(C4_Expected))
          => /\ call.exc = "PermissionError"
             /\ call.error = "permission"
             /\ call.exc \notin {"RuntimeError", "TimeoutError"}
             /\ call.requests = <<>>
             /\ ~call.ensured
             /\ session = call.before.session

C3_Witness ==
    /\ call.op = "get_screenshot"
    /\ call.exc = "PermissionError"
    /\ config.enable_screenshots
    /\ call.url = <<"b">>
    /\ call.before.session = "None"
    /\ session = "None"

\* C4: get_screenshot targets its url argument when one is given and else the
\* last known url; with neither it fails with the precondition error
\* (ValueError), before the permission check and before any request.
C4_TargetResolution ==
    call.op = "get_screenshot" =>
        /\ \A i \in 1..Len(call.requests) : call.requests[i].url = C4_Expected
        /\ (call.exc \in {NoError, "RuntimeError", "TimeoutError"})
              => Len(call.requests) = 1
        /\ (C4_Expected = None \/ C4_Expected = <<>>)
              => /\ call.exc = "ValueError"
                 /\ call.error \in {"no_url", "base_url"}
                 /\ call.requests = <<>>
                 /\ ~call.ensured

C4_Witness ==
    /\ call.op = "get_screenshot"
    /\ call.url = None
    /\ call.before.last_known_url = None
    /\ ~config.enable_screenshots
    /\ call.exc = "ValueError"
    /\ call.error = "no_url"

C4_WitnessFallback ==
    /\ call.op = "get_screenshot"
    /\ call.url = None
    /\ call.before.last_known_url = <<"a">>
    /\ call.exc = NoError

\* C19: after a successful get_current_context the provider's last known url
\* is the url field of the response (which the returned PageContext carries),
\* whatever url argument the call was given.
C19_ResponseUrlIsLastKnown ==
    /\ (call.op = "get_current_context" /\ call.exc = NoError)
          => last_known_url = call.value.url
    /\ (call.op = "get_context_with_screenshot" /\ call.ctx_exc = NoError)
          => last_known_url = call.ctx_value.url

C19_Witness ==
    /\ call.op = "get_current_context"
    /\ call.exc = NoError
    /\ call.url = <<"a">>
    /\ call.value.url = <<"b">>
    /\ last_known_url = <<"b">>

\* C20: a provider owns at most one open transport session at any time, and it
\* is the one it refers to; a call that needs the session creates one when
\* there is none or it is closed and reuses the open one otherwise; cleanup
\* raises nothing and leaves no open session, whether or not there was one.
C20_OneLazySession ==
    /\ open_sessions <= 1
    /\ (session = "open") <=> (open_sessions = 1)
    /\ (call.ensured /\ call.before.session = "open")
          => /\ session = "open"
             /\ open_sessions = call.before.open_sessions
    /\ (call.ensured /\ call.before.session \in {"None", "closed"})
          => /\ session = "open"
             /\ open_sessions = call.before.open_sessions + 1
    /\ call.op = "cleanup"
          => /\ call.exc = NoError
             /\ session # "open"
             /\ open_sessions = 0
             /\ (call.before.session = "None") <=> (session = "None")

C20_Witness ==
    /\ call.op \in {"get_current_context", "get_screenshot"}
    /\ call.ensured
    /\ call.before.session = "closed"
    /\ session = "open"
    /\ open_sessions = 1

\* one provider step: a transport failure of get_current_context(url) leaves
\* url as the last known url, and a get_screenshot() right after it targets url
C27_Step ==
    /\ (/\ call'.op = "get_current_context"
        /\ call'.url # None /\ call'.url # <<>>
        /\ call'.exc = "RuntimeError"
        /\ call'.error = "transport")
          => /\ last_known_url' = call'.url
             /\ Len(call'.requests) = 1
             /\ call'.requests[1].url = call'.url
    /\ (/\ call.op = "get_current_context"
        /\ call.url # None /\ call.url # <<>>
        /\ call.error = "transport"
        /\ call'.op = "get_screenshot"
        /\ call'.url = None)
          => /\ call'.before.last_known_url = call.url
             /\ \A i \in 1..Len(call'.requests) : call'.requests[i].url = call.url
             /\ call'.error # "no_url"

\* C27: get_current_context(url) with a non-empty url makes url the last
\* known url before the request is issued: when the request then fails with a
\* transport error the last known url is url all the same, and a get_screenshot
\* without url that follows targets it.
C27_UrlRecordedBeforeRequest == [][C27_Step]_vars

C27_Witness ==
    /\ call.op = "get_current_context"
    /\ call.url = <<"a">>
    /\ call.exc = "RuntimeError"
    /\ call.error = "transport"
    /\ call.before.last_known_url = <<"b">>
    /\ Len(call.requests) = 1
    /\ call.requests[1].url = <<"a">>
    /\ last_known_url = <<"a">>

\* C28: get_context_with_screenshot fetches the context first: without a url
\* argument its screenshot request, if one is made, targets the url the
\* context response carried, and comes after the context request; when the
\* context fetch fails, that error is the call's and no screenshot is
\* requested.
C28_ContextBeforeScreenshot ==
    call.op = "get_context_with_screenshot" =>
        /\ (call.ctx_exc = NoError /\ (call.url = None \/ call.url = <<>>))
              => \A i \in 1..Len(call.requests) :
                    (call.requests[i].endpoint = "/screenshot"
                        => /\ call.requests[i].url = call.ctx_value.url
                           /\ i > 1
                           /\ call.requests[1].endpoint = "/current-context")
        /\ call.ctx_exc # NoError
              => /\ call.exc = call.ctx_exc
                 /\ call.shot_exc = "n/a"
                 /\ \A i \in 1..Len(call.requests) :
                       call.requests[i].endpoint # "/screenshot"

C28_Witness ==
    /\ call.op = "get_context_with_screenshot"
    /\ call.url = None
    /\ call.before.last_known_url = <<"a">>
    /\ call.ctx_exc = NoError
    /\ call.ctx_value.url = <<"b">>
    /\ Len(call.requests) = 2
    /\ call.requests[2].endpoint = "/screenshot"
    /\ call.requests[2].url = <<"b">>

----------------------------------------------------------------------------
(* Claims about the session protocol *)

\* C5: in every reachable state every entry of context_history holds at most
\* 10 contexts, whatever context and context_change messages the sessions sent.
C5_HistoryAtMostTen ==
    \A k \in DOMAIN context_history : Len(context_history[k]) <= 10

C5_Witness ==
    \E c \in Clients : nrecv[c] >= 11 /\ Len(History(c)) = 10

\* C6: oldest first: a session that has received n messages, all handled
\* without a failure, holds exactly the last min(n, 10) of them in arrival
\* order (message k of a session carries timestamp k), so after the 11th the
\* 1st is gone.
C6_LastTenInArrivalOrder ==
    \A c \in Clients :
        (pc[c] = "recv" /\ conn[c] = "open") =>
            LET n == nrecv[c]
                h == History(c)
            IN /\ Len(h) = (IF n < 10 THEN n ELSE 10)
               /\ \A i \in 1..Len(h) :
                     /\ h[i].timestamp = n - Len(h) + i
                     /\ h[i].url = HistoryData(n - Len(h) + i).url

C6_Witness ==
    \E c \in Clients :
        /\ nrecv[c] = 11
        /\ pc[c] = "recv"
        /\ conn[c] = "open"
        /\ Len(History(c)) = 10
        /\ History(c)[1].timestamp = 2

\* C7: a session whose loop has ended, for whatever reason, has no entry in
\* context_history.
C7_EndedSessionHasNoHistory ==
    \A c \in Clients : pc[c] = "ended" => client_id(c) \notin DOMAIN context_history

\* the history entry of session c differs between the two states of a step
C8_EntryChanged(c) ==
    \/ (client_id(c) \in DOMAIN context_history)
          # (client_id(c) \in DOMAIN context_history')
    \/ /\ client_id(c) \in DOMAIN context_history
       /\ client_id(c) \in DOMAIN context_history'
       /\ context_history[client_id(c)] # context_history'[client_id(c)]

\* session c took the step: its coroutine moved
C8_Moved(c) == <<pc[c], nrecv[c], todo[c]>> # <<pc'[c], nrecv'[c], todo'[c]>>

\* C8: with sessions interleaving at their suspend points, a session's history
\* entry is added to, trimmed, replaced or deleted only by steps of that
\* session itself.
C8_OnlyOwnHistory ==
    [][\A c \in Clients : C8_EntryChanged(c) => C8_Moved(c)]_vars

C8_Witness ==
    /\ History("c1") # <<>>
    /\ History("c2") # <<>>
    /\ pc["c1"] = "send_instr"

\* the frames whose handling fails: text that is no JSON object, or a context
\* message whose payload makes deserialization or analysis raise
C9_FailingFrame(f) ==
    \/ f.wire \in {"not_json", "not_object"}
    \/ /\ f.wire = "json_object"
       /\ f.type = "context"
       /\ \/ convert_dict_to_page_context_raises(f.data)
          \/ analyze_context_raises(convert_dict_to_page_context(f.data))

\* C9: once a failing frame has been handled on a connection that did not
\* fail, a context_error has been sent for it and the loop is back at receive.
C9_FailureAnsweredLoopGoesOn ==
    \A c \in Clients :
        (/\ C9_FailingFrame(msg[c])
         /\ conn[c] = "open"
         /\ pc[c] \in {"recv", "ended"})
            => /\ pc[c] = "recv"
               /\ \E i \in 1..Len(sent[c]) : sent[c][i].type = "context_error"

\* C10: context_received is sent only for a context message whose
\* deserialization and analysis both succeeded.
C10_AckReflectsAnalysis ==
    \A c \in Clients :
        (\E i \in 1..Len(sent[c]) : sent[c][i].type = "context_received")
            => /\ msg[c].type = "context"
               /\ ~convert_dict_to_page_context_raises(msg[c].data)
               /\ ~analyze_context_raises(convert_dict_to_page_context(msg[c].data))

\* C11: context and context_change messages are handled alike: once either
\* has been handled successfully (no other session having stored anything),
\* context_storage holds the snapshot under its url and under "default", the
\* snapshot is the last entry of the session's history, and exactly one
\* context_received has been sent for it.
C11_ContextTypesHandledAlike ==
    \A c \in Clients :
        (/\ msg[c].wire = "json_object"
         /\ msg[c].type \in ContextTypes
         /\ ~convert_dict_to_page_context_raises(msg[c].data)
         /\ ~analyze_context_raises(convert_dict_to_page_context(msg[c].data))
         /\ pc[c] = "recv"
         /\ conn[c] = "open"
         /\ \A d \in Clients \ {c} : nrecv[d] = 0)
            => LET context == convert_dict_to_page_context(msg[c].data)
               IN /\ context.url \in DOMAIN context_storage
                  /\ context_storage[context.url] = context
                  /\ DefaultKey \in DOMAIN context_storage
                  /\ context_storage[DefaultKey] = context
                  /\ History(c) # <<>>
                  /\ History(c)[Len(History(c))] = context
                  /\ Cardinality({i \in 1..Len(sent[c]) :
                                     sent[c][i].type = "context_received"}) = 1

\* a step in which session c receives a message of one of the given types
C23_Receives(c, types) ==
    /\ nrecv'[c] = nrecv[c] + 1
    /\ msg'[c].wire = "json_object"
    /\ msg'[c].type \in types

\* C23: handling an instruction_result or a pong message sends nothing and
\* leaves context_storage, screenshot_storage and every history as they were,
\* and the loop goes back to waiting for the next message.
C23_ResultAndPongChangeNothing ==
    [][\A c \in Clients :
          C23_Receives(c, {"instruction_result", "pong"})
             => /\ sent'[c] = <<>>
                /\ context_storage' = context_storage
                /\ screenshot_storage' = screenshot_storage
                /\ context_history' = context_history
                /\ pc'[c] = "recv"]_vars

\* the key a screenshot payload is stored under
C24_Url(data) == Get(data.url, UnknownUrl)

\* C24 as stated: every screenshot message, once handled on a connection that
\* stayed open, is stored under its url and under "default" and was answered
\* with exactly one screenshot_ack.
C24_EveryScreenshotStoredAndAcked ==
    \A c \in Clients :
        (/\ msg[c].wire = "json_object"
         /\ msg[c].type = "screenshot"
         /\ msg[c].data.isdict
         /\ pc[c] = "recv"
         /\ conn[c] = "open")
            => /\ C24_Url(msg[c].data) \in DOMAIN screenshot_storage
               /\ DefaultKey \in DOMAIN screenshot_storage
               /\ Len(sent[c]) = 1
               /\ sent[c][1].type = "screenshot_ack"

\* one step of a session: receiving a screenshot message stores a non-empty
\* payload under both keys and nothing otherwise; the send that follows
\* carries the url and the size of the payload
C24_Step ==
    \A c \in Clients :
        /\ (C23_Receives(c, {"screenshot"}) /\ msg'[c].data.isdict) =>
              LET data == msg'[c].data
              IN IF Truthy(Get(data.screenshot, None))
                 THEN /\ DOMAIN screenshot_storage' =
                            DOMAIN screenshot_storage \cup {C24_Url(data), DefaultKey}
                      /\ screenshot_storage'[C24_Url(data)] = data.screenshot
                      /\ screenshot_storage'[DefaultKey] = data.screenshot
                      /\ \A k \in DOMAIN screenshot_storage \ {C24_Url(data), DefaultKey} :
                            screenshot_storage'[k] = screenshot_storage[k]
                      /\ sent'[c] = <<>>
                      /\ pc'[c] = "send"
                 ELSE /\ screenshot_storage' = screenshot_storage
                      /\ sent'[c] = <<>>
                      /\ pc'[c] = "recv"
        /\ (/\ pc[c] = "send"
            /\ msg[c].type = "screenshot"
            /\ pc'[c] = "recv")
              => /\ Len(sent'[c]) = 1
                 /\ sent'[c][1].type = "screenshot_ack"
                 /\ sent'[c][1].url = C24_Url(msg[c].data)
                 /\ sent'[c][1].size = Len(msg[c].data.screenshot)
                 /\ screenshot_storage' = screenshot_storage

\* C24, amended: a screenshot message whose data object carries a non-empty
\* screenshot is stored under its url ("unknown" when it has none) and under
\* "default" and answered with one screenshot_ack carrying that url and the
\* payload's length; one without such a payload stores and sends nothing.
C24_PayloadStoredAndAcked == [][C24_Step]_vars

C24_Witness ==
    \E c \in Clients :
        /\ msg[c].type = "screenshot"
        /\ msg[c].data = NoUrlScreenshotData
        /\ pc[c] = "recv"
        /\ conn[c] = "open"
        /\ sent[c] = << ScreenshotAck(NoUrlScreenshotData) >>
        /\ sent[c][1].size = 2
        /\ sent[c][1].url = UnknownUrl
        /\ screenshot_storage[UnknownUrl] = <<"j", "j">>
        /\ screenshot_storage[DefaultKey] = <<"j", "j">>
        /\ C24_Url(ScreenshotData) \in DOMAIN screenshot_storage

\* the "instruction" messages a context message gives rise to, in the order
\* the analyzer generated the instructions
C25_Expected(frame) ==
    LET context == convert_dict_to_page_context(frame.data)
        instructions == generate_instructions(context, analyze_context(context))
    IN [i \in 1..Len(instructions) |-> Out("instruction", instructions[i])]

\* a context or context_change message that converts and analyses
C25_Analysed(frame) ==
    /\ frame.wire = "json_object"
    /\ frame.type \in ContextTypes
    /\ ~convert_dict_to_page_context_raises(frame.data)
    /\ ~analyze_context_raises(convert_dict_to_page_context(frame.data))

C25_IsPrefix(a, b) == Len(a) <= Len(b) /\ \A i \in 1..Len(a) : a[i] = b[i]

\* C25: what a session has sent for a context message is at every moment a
\* prefix of its instructions, one "instruction" message each in the
\* analyzer's order, followed by the acknowledgment; the session is back at
\* receiving the next message only with none of them pending, and on a
\* connection that stayed open with all of them sent.
C25_InstructionsInOrderBeforeAck ==
    \A c \in Clients :
        C25_Analysed(msg[c]) =>
            LET ack == IF msg[c].type = "context"
                       THEN << Out("context_received", NoInstruction) >> ELSE <<>>
                all == C25_Expected(msg[c]) \o ack
            IN /\ C25_IsPrefix(sent[c], all)
               /\ pc[c] \in {"recv", "send_ack", "send_err", "ended"} => todo[c] = <<>>
               /\ pc[c] = "send_instr" =>
                     /\ todo[c] # <<>>
                     /\ C25_IsPrefix(sent[c] \o << Out("instruction", Head(todo[c])) >>,
                                     C25_Expected(msg[c]))
               /\ (pc[c] = "recv" /\ conn[c] = "open") => sent[c] = all

C25_Witness ==
    \E c \in Clients :
        /\ msg[c] = Frame("json_object", "context", SignupData(1))
        /\ pc[c] = "recv"
        /\ conn[c] = "open"
        /\ Len(sent[c]) = 3
        /\ sent[c][1].type = "instruction"
        /\ sent[c][2].type = "instruction"
        /\ sent[c][1].instr # sent[c][2].instr
        /\ sent[c][3].type = "context_received"

\* the history of session c in a context_history dictionary
C29_Hist(hist, c) == IF client_id(c) \in DOMAIN hist THEN hist[client_id(c)] ELSE <<>>

\* one step of a session: its history grows only by the snapshot of a message
\* all of whose instructions have been sent; a failing send and a raising
\* analysis drop the instructions still to be sent and leave the history
C29_Step ==
    \A c \in Clients :
        LET before == C29_Hist(context_history, c)
            after == C29_Hist(context_history', c)
        IN /\ (after # before /\ pc'[c] # "ended")
                 => /\ C25_Analysed(msg'[c])
                    /\ sent'[c] = C25_Expected(msg'[c])
                    /\ todo'[c] = <<>>
                    /\ after = trim_history(Append(before,
                                   convert_dict_to_page_context(msg'[c].data)))
           /\ (pc[c] = "send_instr" /\ conn'[c] = "dead")
                 => /\ after = before
                    /\ todo'[c] = <<>>
                    /\ sent'[c] = sent[c]
                    /\ Len(sent'[c]) < Len(C25_Expected(msg[c]))
                    /\ pc'[c] # "send_instr"
           /\ (/\ C23_Receives(c, ContextTypes)
               /\ ~convert_dict_to_page_context_raises(msg'[c].data)
               /\ analyze_context_raises(convert_dict_to_page_context(msg'[c].data)))
                 => /\ after = before
                    /\ todo'[c] = <<>>
                    /\ pc'[c] # "send_instr"
           /\ (conn[c] = "dead" /\ pc'[c] # "ended") => after = before

\* C29: a snapshot is appended to its session's history only once every
\* instruction generated for it has been sent; when analysis raises or a send
\* fails, the instructions left are not sent and the history stays as it was
\* before the message.
C29_AppendAfterAllSent == [][C29_Step]_vars

C29_Witness ==
    \E c \in Clients :
        /\ msg[c] = Frame("json_object", "context", SignupData(1))
        /\ nrecv[c] = 2
        /\ Len(sent[c]) = 1
        /\ sent[c][1].type = "instruction"
        /\ conn[c] = "dead"
        /\ todo[c] = <<>>
        /\ pc[c] = "send_ack"
        /\ Len(C29_Hist(context_history, c)) = 1

----------------------------------------------------------------------------
(* Claims about the analyzer and the parser *)

\* a field that is required and has no value
C12_EmptyRequired(field) ==
    field.required /\ (field.value = None \/ field.value = <<>>)

\* how many empty required fields a form has
C12_EmptyCount(form) ==
    Cardinality({j \in 1..Len(form.fields) : C12_EmptyRequired(form.fields[j])})

\* the forms of the page under analysis
C12_Forms == IF page_context.dom.some THEN page_context.dom.forms ELSE <<>>

C12_IsAggregate(instr) ==
    instr.type = "contextual_notification" /\ instr.action = "complete_required_fields"

C12_IsHighlight(instr) ==
    instr.type = "form_assistance" /\ instr.action = "highlight_field"

C12_Aggregates == SelectSeq(analyzed.instructions, C12_IsAggregate)

C12_Highlights == SelectSeq(analyzed.instructions, C12_IsHighlight)

RECURSIVE C12_SumEmpty(_)
C12_SumEmpty(forms) ==
    IF forms = <<>> THEN 0 ELSE C12_EmptyCount(Head(forms)) + C12_SumEmpty(Tail(forms))

RECURSIVE C12_SumCapped(_)
C12_SumCapped(forms) ==
    IF forms = <<>> THEN 0
    ELSE (IF C12_EmptyCount(Head(forms)) > 3 THEN 3 ELSE C12_EmptyCount(Head(forms)))
         + C12_SumCapped(Tail(forms))

C13_SignupScenario ==
    (page_context = SignupPage /\ analyzed.done)
        => /\ ~analyzed.raised
           /\ analyzed.pageType = "form"
           /\ Cardinality({i \in 1..Len(analyzed.issues) :
                              analyzed.issues[i].type = "validation"}) = 1
           /\ \E i \in 1..Len(analyzed.issues) :
                 /\ analyzed.issues[i].type = "validation"
                 /\ analyzed.issues[i].element = <<"[", "n", "a", "m", "e", "=", "'", "e", "m", "a", "i", "l", "'", "]">>
           /\ Len(C12_Highlights) = 1
           /\ Len(C12_Aggregates) = 1
           /\ C12_Aggregates[1].n = 1

\* some keyword occurs in s, letter case aside
C14_Has(keywords, s) == \E k \in keywords : C2_Occurs(k, Lower(s))

\* the title followed by the DOM text, if any
C14_TitleText ==
    page_context.title \o (IF page_context.dom.some THEN page_context.dom.text ELSE <<>>)

\* C14: classification takes the first rule that matches, in this order:
\* checkout keywords in the url, dashboard keywords in the url, error keywords
\* in title+text, loading keywords in title+text, at least one form, else
\* "content"; so a url with checkout, cart, payment or billing is "checkout"
\* whatever the title, text and forms are.  Keywords match whatever the case.
C14_FirstRuleWins ==
    analyzed.done =>
        /\ analyzed.pageType =
              IF C14_Has({<<"c", "h", "e", "c", "k", "o", "u", "t">>, <<"c", "a", "r", "t">>, <<"p", "a", "y", "m", "e", "n", "t">>, <<"b", "i", "l", "l", "i", "n", "g">>}, page_context.url)
              THEN "checkout"
              ELSE IF C14_Has({<<"d", "a", "s", "h", "b", "o", "a", "r", "d">>, <<"a", "d", "m", "i", "n">>, <<"p", "a", "n", "e", "l">>}, page_context.url)
              THEN "dashboard"
              ELSE IF C14_Has({<<"e", "r", "r", "o", "r">>, <<"4", "0", "4">>, <<"5", "0", "0">>, <<"n", "o", "t", " ", "f", "o", "u", "n", "d">>, <<"s", "e", "r", "v", "e", "r", " ", "e", "r", "r", "o", "r">>},
                              C14_TitleText)
              THEN "error"
              ELSE IF C14_Has({<<"l", "o", "a", "d", "i", "n", "g">>, <<"p", "l", "e", "a", "s", "e", " ", "w", "a", "i", "t">>, <<"p", "r", "o", "c", "e", "s", "s", "i", "n", "g">>}, C14_TitleText)
              THEN "loading"
              ELSE IF Len(C12_Forms) >= 1 THEN "form"
              ELSE "content"
        /\ C14_Has({<<"c", "h", "e", "c", "k", "o", "u", "t">>, <<"c", "a", "r", "t">>, <<"p", "a", "y", "m", "e", "n", "t">>, <<"b", "i", "l", "l", "i", "n", "g">>}, page_context.url)
              => analyzed.pageType = "checkout"

C14_Witness ==
    /\ analyzed.done
    /\ page_context.url = <<"/", "a", "d", "m", "i", "n", "/", "b", "i", "l", "l", "i", "n", "g">>
    /\ page_context.title = <<"S", "e", "r", "v", "e", "r", " ", "E", "r", "r", "o", "r">>
    /\ Len(C12_Forms) = 2
    /\ analyzed.pageType = "checkout"

\* C15: a page with no DOM data has no issues, whatever its url, title and
\* viewport are, a viewport narrower than 768 included.
C15_NoDomNoIssues ==
    (analyzed.done /\ ~page_context.dom.some) => analyzed.issues = <<>>

C15_Witness ==
    /\ analyzed.done
    /\ ~page_context.dom.some
    /\ page_context.viewport.some
    /\ page_context.viewport.width < 768
    /\ analyzed.issues = <<>>

\* the confidence before clamping, in hundredths
C16_Sum ==
    50 + (IF page_context.dom.some /\ page_context.dom.text # <<>> THEN 20 ELSE 0)
       + (IF Len(C12_Forms) > 0 THEN 10 ELSE 0)
       + (IF page_context.viewport.some THEN 10 ELSE 0)
       + (IF 5 * Len(analyzed.issues) > 20 THEN 20 ELSE 5 * Len(analyzed.issues))

\* C16: the confidence lies in [0, 1] (0..100 hundredths) for every page; it
\* is 0.5, plus 0.2 for DOM text, 0.1 for forms, 0.1 for a viewport and 0.05
\* an issue up to 0.2, clamped to 1.
C16_ConfidenceInUnitInterval ==
    analyzed.done =>
        /\ 0 <= analyzed.confidence
        /\ analyzed.confidence <= 100
        /\ analyzed.confidence = (IF C16_Sum > 100 THEN 100 ELSE C16_Sum)

C16_Witness ==
    /\ analyzed.done
    /\ C16_Sum = 110
    /\ Len(analyzed.issues) = 5
    /\ analyzed.confidence = 100

\* C17: the instructions of a page classified "checkout" hold exactly one
\* high-priority notification, the "review your order" one.
C17_OneReviewOrderNotification ==
    (analyzed.done /\ analyzed.pageType = "checkout")
        => LET high == SelectSeq(analyzed.instructions,
                                 LAMBDA x : /\ x.type = "contextual_notification"
                                            /\ x.priority = "high")
           IN /\ Len(high) = 1
              /\ high[1].action = "review_order"

C17_Witness ==
    /\ analyzed.done
    /\ analyzed.pageType = "checkout"
    /\ page_context.title = <<"S", "e", "r", "v", "e", "r", " ", "E", "r", "r", "o", "r">>
    /\ Len(analyzed.issues) > 0
    /\ Len(analyzed.instructions) > 2

\* C18: a PageContext written in the wire shape and parsed back by
\* _parse_context comes back with its DOM (text, html, forms and their fields,
\* inputs) and its viewport equal to the original, field for field.
C18_RoundTrip ==
    reparsed.done =>
        /\ ~reparsed.raised
        /\ reparsed.value.dom = page_context.dom
        /\ reparsed.value.viewport = page_context.viewport
        /\ page_context.viewport.some =>
              /\ reparsed.value.viewport.scroll_x = page_context.viewport.scroll_x
              /\ reparsed.value.viewport.scroll_y = page_context.viewport.scroll_y
        /\ reparsed.value.url = page_context.url
        /\ reparsed.value.title = page_context.title
        /\ reparsed.value.timestamp = page_context.timestamp

C18_Witness ==
    /\ reparsed.done
    /\ page_context.viewport.some
    /\ page_context.viewport.scroll_x = 5
    /\ reparsed.value.viewport.scroll_x = 5
    /\ page_context.dom.some
    /\ Len(page_context.dom.forms) = 2
    /\ Len(reparsed.value.dom.forms[1].fields) = 6
    /\ Len(reparsed.value.dom.inputs) = 2

\* the group an instruction belongs to by its action: 1 page-type-specific,
\* 2 the mobile tooltip, 3 issue-derived
C26_Group(instruction) ==
    CASE instruction.action = "show_tooltip" -> 2
      [] instruction.action \in {"show_error", "accessibility_warning"} -> 3
      [] OTHER -> 1

RECURSIVE C26_Bearing(_)
\* the issues that give rise to an instruction, in the order of the issue list
C26_Bearing(issues) ==
    IF issues = <<>> THEN <<>>
    ELSE (IF \/ Head(issues).type = "validation" /\ Truthy(Head(issues).element)
             \/ Head(issues).type = "accessibility"
          THEN << Head(issues) >> ELSE <<>>) \o C26_Bearing(Tail(issues))

\* C26: generate_instructions emits the page-type-specific instructions
\* first, then the mobile tooltip (there exactly when the viewport is narrower
\* than 768), then one instruction per instruction-bearing issue in the order
\* of the analysis' issue list.
C26_InstructionOrder ==
    (analyzed.done /\ ~analyzed.raised) =>
        LET ins == analyzed.instructions
            n == Len(ins)
            group(g) == {i \in 1..n : C26_Group(ins[i]) = g}
            bearing == C26_Bearing(analyzed.issues)
            first3 == n - Len(bearing)
        IN /\ \A i, j \in 1..n : i < j => C26_Group(ins[i]) <= C26_Group(ins[j])
           /\ Cardinality(group(2)) =
                 IF page_context.viewport.some /\ page_context.viewport.width < 768
                 THEN 1 ELSE 0
           /\ group(1) # {} => analyzed.pageType \in {"form", "checkout", "error"}
           /\ Cardinality(group(3)) = Len(bearing)
           /\ \A k \in 1..Len(bearing) :
                 IF bearing[k].type = "validation"
                 THEN /\ ins[first3 + k].action = "show_error"
                      /\ ins[first3 + k].selector = bearing[k].element
                 ELSE ins[first3 + k].action = "accessibility_warning"

C26_Witness ==
    /\ analyzed.done
    /\ analyzed.pageType = "form"
    /\ Len(analyzed.instructions) >= 5
    /\ analyzed.instructions[1].action = "highlight_field"
    /\ \E i \in 2..(Len(analyzed.instructions) - 2) :
          /\ analyzed.instructions[i].action = "show_tooltip"
          /\ analyzed.instructions[i - 1].action = "complete_required_fields"
          /\ analyzed.instructions[i + 1].action = "show_error"
          /\ analyzed.instructions[i + 2].action = "accessibility_warning"

----------------------------------------------------------------------------
(* Claims about behaviour analysis *)

\* C21: behaviour analysis reports "checkout_abandonment" exactly when the
\* history contains a checkout-type snapshot after which no snapshot has a url
\* containing "success" or "thank"; a success url before it does not suppress
\* the pattern.
C21_CheckoutAbandonment ==
    (behavior.done /\ ~behavior.empty) =>
        ((\E i \in 1..Len(behavior.behavior_patterns) :
              behavior.behavior_patterns[i] = "checkout_abandonment")
         <=> (\E i \in pages_of_type(visited, "checkout") :
                 \A j \in (i + 1)..Len(visited) : ~is_success_url(visited[j])))

\* C22: behaviour analysis reports "error_encountered" for every non-empty
\* history with at least one error-type snapshot, a history of one snapshot
\* included.
C22_ErrorEncountered ==
    (behavior.done /\ visited # <<>> /\ pages_of_type(visited, "error") # {}) =>
        (~behavior.empty
         /\ \E i \in 1..Len(behavior.behavior_patterns) :
                behavior.behavior_patterns[i] = "error_encountered")

============================================================================
